---- MODULE Spec2Model ----
(***************************************************************************)
(* Model of the genji query package (src/query/query.go): the statements   *)
(* SelectStmt, DeleteStmt, InsertStmt and UpdateStmt run against one table *)
(* of a transaction.  Every Run method is one atomic action; its inputs   *)
(* (the statement built with the DSL) are drawn from small sets.  The     *)
(* outcome of the last Run is kept in the variable last, so that the      *)
(* properties can relate the statement, the table before and the table    *)
(* after.                                                                  *)
(*                                                                         *)
(* The database/sql driver of the package (stmt.QueryContext and the       *)
(* recordStream it returns) is modelled as two goroutines, the consumer    *)
(* calling Next, Close and Columns and the goroutine running iterate,      *)
(* that meet on the unbuffered channel rs.c (specification StreamSpec).    *)
(*                                                                         *)
(* The parser of the CREATE and INSERT statements (src/insert.go) is a      *)
(* function of the token sequence that follows the keyword CREATE or       *)
(* INSERT; specification ParseSpec draws the token sequence from a bounded *)
(* set and applies the parser to it.  Specification TokenSpec applies the  *)
(* methods of scanner.Token to every token.                                *)
(*                                                                         *)
(* The stream operator TempTreeSort (internal/stream/docs) is modelled     *)
(* from its description; specification SortSpec pipes a table scan into    *)
(* it.                                                                     *)
(*                                                                         *)
(* Specification ExecSpec calls stmt.ExecContext with a context that may   *)
(* be cancelled, or pass its deadline, at any moment.                      *)
(***************************************************************************)
EXTENDS Integers, Sequences, FiniteSets, TLC

VARIABLES
    schemaful,  \* whether the table was created with a schema (t.Schema())
    tbl,        \* the table: sequence of rows [id, r] in record id order
    nextID,     \* next record id the engine hands out
    last,       \* statement run last, with its outcome
    rs,         \* the recordStream QueryContext returned, its context and channel
    iter,       \* the goroutine running recordStream.iterate
    cons,       \* the goroutine calling Next, Close and Columns
    input,      \* the tokens the scanner hands to the parser
    parsed,     \* what the parser returned for them
    lex,        \* a token and what its methods returned for it
    sorter,     \* a stream table scan | TempTreeSort and what it has emitted
    exec        \* a call of stmt.ExecContext and its context

driverVars == <<rs, iter, cons>>

parserVars == <<input, parsed, lex>>

vars == <<schemaful, tbl, nextID, last, rs, iter, cons, input, parsed, lex, sorter, exec>>

----------------------------------------------------------------------------
(* Bounds *)

\* ids handed out by the engine are 1..MaxRecords: a table holds at most
\* MaxRecords records
MaxRecords == 2

\* largest value passed to Offset and to Limit
MaxArg == 2

----------------------------------------------------------------------------
(* Values, fields, records *)

\* F applied to the value v: names an intermediate result (a local variable
\* of the code) without evaluating it more than once
Let(v, F(_)) == F(v)

Min(x, y) == IF x < y THEN x ELSE y
Max(x, y) == IF x > y THEN x ELSE y

Value(t, d) == [Type |-> t, Data |-> d]
NullValue == Value("Null", 0)
IntValue(n) == Value("Int", n)
BoolValue(b) == Value("Bool", b)
FloatValue(x) == Value("Float64", x)

\* order of the field types (Bool < Int < Float64), Null below them
TypeRank(t) ==
    CASE t = "Null" -> 0 [] t = "Bool" -> 1 [] t = "Int" -> 2 [] t = "Float64" -> 3

\* field.DecodeInt64(data): the decoder is given the bytes of the value
\* without its type, and reads the integer they encode
DecodeInt64(data) == [err |-> "nil", n |-> data]

\* value.Truthy(): Null, false and zero are falsy
Truthy(v) == v.Type # "Null" /\ v.Data # 0

\* field.ZeroValue(t)
ZeroValue(t) == Value(t, 0)

Field(n, v) == [Name |-> n, Type |-> v.Type, Data |-> v.Data]

\* the table's schema when it has one: a Int, b Bool
Schema == << [Name |-> "a", Type |-> "Int"], [Name |-> "b", Type |-> "Bool"] >>

\* index of the first field called n in the record (field buffer) r, 0 if none
RECURSIVE IndexOf(_, _, _)
IndexOf(r, n, i) ==
    IF i > Len(r) THEN 0
    ELSE IF r[i].Name = n THEN i
    ELSE IndexOf(r, n, i + 1)

HasField(r, n) == IndexOf(r, n, 1) # 0

\* record.GetField / FieldBuffer.Field: the first field called n
GetField(r, n) == r[IndexOf(r, n, 1)]

\* FieldBuffer.Add: append the field
Add(fb, f) == Append(fb, f)

\* FieldBuffer.Replace(name, f): replace the first field called name;
\* the caller has checked that there is one
Replace(fb, n, f) == [fb EXCEPT ![IndexOf(fb, n, 1)] = f]

\* schema.Field(name): position of the field in the schema, 0 when absent
RECURSIVE SchemaIndex(_, _)
SchemaIndex(n, i) ==
    IF i > Len(Schema) THEN 0
    ELSE IF Schema[i].Name = n THEN i
    ELSE SchemaIndex(n, i + 1)

----------------------------------------------------------------------------
(* Expressions: the Expr interface, given by what Eval returns *)

Expr(k, n, v, ok, ierr) == [k |-> k, n |-> n, v |-> v, ok |-> ok, ierr |-> ierr]

\* the nil Expr of a statement built without Where / Limit / Offset
NoExpr == Expr("nil", "", NullValue, FALSE, "nil")
\* a literal
Lit(v) == Expr("lit", "", v, FALSE, "nil")
\* an expression whose evaluation fails (e.g. a parameter that is not bound)
Fail == Expr("fail", "", NullValue, FALSE, "nil")
\* n = v
Eq(n, v) == Expr("eq", n, v, FALSE, "nil")
\* n = v, implementing IndexMatcher; MatchIndex answers (ok, ierr)
IEq(n, v, ok, ierr) == Expr("ieq", n, v, ok, ierr)
\* arithmetic on field n: fails on an operand that is not an Int
Strict(n) == Expr("strict", n, NullValue, FALSE, "nil")
\* the field reference n
Ref(n) == Expr("ref", n, NullValue, FALSE, "nil")

EvalResult(err, v) == [err |-> err, v |-> v]

\* Expr.Eval(EvalContext{Record: r}).  Calling a method of the nil
\* interface panics.
Eval(e, r) ==
    CASE e.k = "nil" -> EvalResult("panic", NullValue)
      [] e.k = "lit" -> EvalResult("nil", e.v)
      [] e.k = "fail" -> EvalResult("eval", NullValue)
      [] e.k \in {"eq", "ieq"} ->
            IF ~HasField(r, e.n) THEN EvalResult("nil", NullValue)
            ELSE LET f == GetField(r, e.n)
                 IN  EvalResult("nil",
                        BoolValue(IF Value(f.Type, f.Data) = e.v THEN 1 ELSE 0))
      [] e.k = "ref" ->
            IF ~HasField(r, e.n) THEN EvalResult("nil", NullValue)
            ELSE EvalResult("nil", Value(GetField(r, e.n).Type, GetField(r, e.n).Data))
      [] e.k = "strict" ->
            IF ~HasField(r, e.n) THEN EvalResult("nil", NullValue)
            ELSE LET f == GetField(r, e.n)
                 IN  IF f.Type # "Int" THEN EvalResult("eval", NullValue)
                     ELSE EvalResult("nil", Value(f.Type, f.Data))

\* whether e implements IndexMatcher
IsIndexMatcher(e) == e.k = "ieq"

\* IndexMatcher.MatchIndex(tx, table): the record ids the index holds for the
\* value, in index order (equal keys: record id order)
RECURSIVE MatchingIDs(_, _, _)
MatchingIDs(t, e, i) ==
    IF i > Len(t) THEN << >>
    ELSE LET ev == Eval(e, t[i].r)
             rest == MatchingIDs(t, e, i + 1)
         IN  IF Truthy(ev.v) THEN << t[i].id >> \o rest ELSE rest

MatchIndex(e, t) ==
    [tree |-> IF e.ok /\ e.ierr = "nil" THEN MatchingIDs(t, e, 1) ELSE << >>,
     ok |-> e.ok, err |-> e.ierr]

----------------------------------------------------------------------------
(* table.Browser *)

\* position of the row with record id in the table, 0 if none
RECURSIVE RowIndex(_, _, _)
RowIndex(t, id, i) ==
    IF i > Len(t) THEN 0
    ELSE IF t[i].id = id THEN i
    ELSE RowIndex(t, id, i + 1)

\* indexResultTable: the rows of the table the index tree points to
RECURSIVE indexResultTable(_, _, _)
indexResultTable(tree, t, i) ==
    IF i > Len(tree) THEN << >>
    ELSE LET j == RowIndex(t, tree[i], 1)
             rest == indexResultTable(tree, t, i + 1)
         IN  IF j = 0 THEN rest ELSE << t[j] >> \o rest

\* Browser.Offset(n): the rows after the first n
BrowserOffset(rows, n) ==
    IF n <= 0 THEN rows ELSE SubSeq(rows, Min(n, Len(rows)) + 1, Len(rows))

\* Browser.Limit(n): the first n rows; a negative n is no limit
BrowserLimit(rows, n) ==
    IF n < 0 THEN rows ELSE SubSeq(rows, 1, Min(n, Len(rows)))

----------------------------------------------------------------------------
(* whereClause *)

errStop == "stop"

\* whereFilter with the limit test off by one (count > limit)
whereFilterLimitOffByOne(e, limit, offset, c, r) ==
    LET sc == Eval(e, r)
    IN  IF sc.err # "nil" THEN [ok |-> FALSE, err |-> sc.err, c |-> c]
        ELSE IF ~Truthy(sc.v) THEN [ok |-> FALSE, err |-> "nil", c |-> c]
        ELSE IF c.skipped < offset
             THEN [ok |-> FALSE, err |-> "nil",
                   c |-> [c EXCEPT !.skipped = c.skipped + 1]]
        ELSE IF limit >= 0 /\ c.count > limit
             THEN [ok |-> FALSE, err |-> "stop", c |-> c]
        ELSE [ok |-> TRUE, err |-> "nil", c |-> [c EXCEPT !.count = c.count + 1]]

\* the callback whereClause passes to Filter; c holds the captured counters
\* skipped and count
whereFilter(e, limit, offset, c, r) ==
    LET sc == Eval(e, r)
    IN  IF sc.err # "nil" THEN [ok |-> FALSE, err |-> sc.err, c |-> c]
        ELSE IF ~Truthy(sc.v) THEN [ok |-> FALSE, err |-> "nil", c |-> c]
        ELSE IF c.skipped < offset
             THEN [ok |-> FALSE, err |-> "nil",
                   c |-> [c EXCEPT !.skipped = c.skipped + 1]]
        ELSE IF limit >= 0 /\ c.count >= limit
             THEN [ok |-> FALSE, err |-> errStop, c |-> c]
        ELSE [ok |-> TRUE, err |-> "nil", c |-> [c EXCEPT !.count = c.count + 1]]

\* Browser.Filter(fn) with fn the callback above: call fn on each row in
\* table order until it returns an error; keep the rows it accepts
RECURSIVE BrowserFilter(_, _, _, _, _, _)
BrowserFilter(t, e, limit, offset, i, b) ==
    IF i > Len(t) \/ b.err # "nil" THEN b
    ELSE Let(whereFilter(e, limit, offset, b.c, t[i].r), LAMBDA x :
            BrowserFilter(t, e, limit, offset, i + 1,
                [rows |-> IF x.ok THEN Append(b.rows, t[i]) ELSE b.rows,
                 err |-> x.err, c |-> x.c, evals |-> b.evals + 1]))

\* whereClause returning the error of the browser as it is, errStop included
whereClauseStopEscapes(t, e, limit, offset) ==
    Let(BrowserFilter(t, e, limit, offset, 1,
            [rows |-> << >>, err |-> "nil",
             c |-> [skipped |-> 0, count |-> 0], evals |-> 0]), LAMBDA b :
        [rows |-> b.rows, evals |-> b.evals, err |-> b.err])

\* whereClause(tx, t, e, limit, offset): the filtered rows; errStop is not
\* an error
whereClause(t, e, limit, offset) ==
    Let(BrowserFilter(t, e, limit, offset, 1,
            [rows |-> << >>, err |-> "nil",
             c |-> [skipped |-> 0, count |-> 0], evals |-> 0]), LAMBDA b :
        [rows |-> b.rows, evals |-> b.evals,
         err |-> IF b.err # "nil" /\ b.err # errStop THEN b.err ELSE "nil"])

----------------------------------------------------------------------------
(* Outcome of a Run *)

ErrIndexNotFound == "ErrIndexNotFound"

\* err: "nil" or the error returned ("panic" when Run does not return);
\* src: the rows the statement selected; res: the records of the Result;
\* evals: calls of the WHERE expression's Eval; source: where the rows came
\* from; applied: per updated row, the field names in the order assigned;
\* t: the table afterwards
Outcome(err, src, res, evals, source, applied, t) ==
    [err |-> err, src |-> src, res |-> res, evals |-> evals,
     source |-> source, applied |-> applied, t |-> t]

Failed(err, evals, source, t) == Outcome(err, << >>, << >>, evals, source, << >>, t)

NoMatch == [tree |-> << >>, ok |-> FALSE, err |-> "nil"]

\* Source returning every MatchIndex error, engine.ErrIndexNotFound included
SourceNotFoundIsError(t, e, limit, offset) ==
    Let(IF IsIndexMatcher(e) THEN MatchIndex(e, t) ELSE NoMatch, LAMBDA im :
        IF im.err # "nil"
        THEN [err |-> im.err, rows |-> << >>, evals |-> 0, source |-> "none"]
        ELSE IF im.ok /\ im.err = "nil"
        THEN [err |-> "nil", rows |-> indexResultTable(im.tree, t, 1),
              evals |-> 0, source |-> "index"]
        ELSE Let(whereClause(t, e, limit, offset), LAMBDA w :
                [err |-> w.err, rows |-> w.rows, evals |-> w.evals,
                 source |-> "scan"]))

\* the rows a statement works on: the index result when the WHERE
\* expression is an IndexMatcher that matches, the filtered table scan
\* otherwise (the part shared by the Run methods of SELECT, DELETE, UPDATE)
Source(t, e, limit, offset) ==
    Let(IF IsIndexMatcher(e) THEN MatchIndex(e, t) ELSE NoMatch, LAMBDA im :
        IF im.err # "nil" /\ im.err # ErrIndexNotFound
        THEN [err |-> im.err, rows |-> << >>, evals |-> 0, source |-> "none"]
        ELSE IF im.ok /\ im.err = "nil"
        THEN [err |-> "nil", rows |-> indexResultTable(im.tree, t, 1),
              evals |-> 0, source |-> "index"]
        ELSE Let(whereClause(t, e, limit, offset), LAMBDA w :
                [err |-> w.err, rows |-> w.rows, evals |-> w.evals,
                 source |-> "scan"]))

----------------------------------------------------------------------------
(* SelectStmt *)

SelectStmt(table, sel, where, offset, limit) ==
    [table |-> table, sel |-> sel, where |-> where,
     offset |-> offset, limit |-> limit]

\* evaluation of offsetExpr / limitExpr: -1 when the expression is nil
EvalArg(e) ==
    IF e = NoExpr THEN [err |-> "nil", n |-> -1]
    ELSE LET s == Eval(e, << >>)
         IN  IF s.err # "nil" THEN [err |-> s.err, n |-> -1]
             ELSE IF TypeRank(s.v.Type) < TypeRank("Int")
                  THEN [err |-> "type", n |-> -1]
             ELSE Let(DecodeInt64(s.v.Data), LAMBDA d :
                      IF d.err # "nil" THEN [err |-> d.err, n |-> -1]
                      ELSE [err |-> "nil", n |-> d.n])

\* FieldSelector.SelectField(r): the field of r called s, Null when r has
\* no such field
SelectField(s, r) ==
    IF HasField(r, s) THEN GetField(r, s) ELSE Field(s, NullValue)

\* MapFn leaving out the selectors the record has no field for
RECURSIVE MapFnSkipMissing(_, _, _, _)
MapFnSkipMissing(sel, r, i, fb) ==
    IF i > Len(sel) THEN fb
    ELSE MapFnSkipMissing(sel, r, i + 1,
            IF HasField(r, sel[i]) THEN Add(fb, SelectField(sel[i], r)) ELSE fb)

\* the callback SelectStmt.Run passes to Map: a new field buffer with one
\* field per selector
RECURSIVE MapFn(_, _, _, _)
MapFn(sel, r, i, fb) ==
    IF i > Len(sel) THEN fb
    ELSE MapFn(sel, r, i + 1, Add(fb, SelectField(sel[i], r)))

\* Browser.Map(fn) with fn the callback above
BrowserMap(rows, sel) == [i \in 1..Len(rows) |-> MapFn(sel, rows[i].r, 1, << >>)]

SelectStmtRun(q, t) ==
    IF ~q.table THEN Failed("missing table selector", 0, "none", t)
    ELSE
    LET off == EvalArg(q.offset)
        lim == EvalArg(q.limit)
    IN  IF off.err # "nil" THEN Failed(off.err, 0, "none", t)
        ELSE IF lim.err # "nil" THEN Failed(lim.err, 0, "none", t)
        ELSE
        Let(Source(t, q.where, lim.n, off.n), LAMBDA s :
            IF s.err # "nil" THEN Failed(s.err, s.evals, s.source, t)
            ELSE Let(IF s.source = "index"
                     THEN BrowserLimit(BrowserOffset(s.rows, off.n), lim.n)
                     ELSE s.rows, LAMBDA rows :
                    Outcome("nil", rows, BrowserMap(rows, q.sel), s.evals,
                            s.source, << >>, t)))

----------------------------------------------------------------------------
(* DeleteStmt *)

DeleteStmt(table, where) == [table |-> table, where |-> where]

\* Table.Delete(recordID)
TableDelete(t, id) == SelectSeq(t, LAMBDA row : row.id # id)

\* DeleteEach stopping after the first row
RECURSIVE DeleteEachFirstOnly(_, _, _)
DeleteEachFirstOnly(t, rows, i) ==
    IF i > Len(rows) \/ i > 1 THEN t
    ELSE DeleteEachFirstOnly(TableDelete(t, rows[i].id), rows, i + 1)

\* ForEach with the callback of DeleteStmt.Run: delete each row
RECURSIVE DeleteEach(_, _, _)
DeleteEach(t, rows, i) ==
    IF i > Len(rows) THEN t
    ELSE DeleteEach(TableDelete(t, rows[i].id), rows, i + 1)

DeleteStmtRun(d, t) ==
    IF ~d.table THEN Failed("missing table selector", 0, "none", t)
    ELSE
    Let(Source(t, d.where, -1, -1), LAMBDA s :
        IF s.err # "nil" THEN Failed(s.err, s.evals, s.source, t)
        ELSE Outcome("nil", s.rows, << >>, s.evals, s.source, << >>,
                     DeleteEach(t, s.rows, 1)))

----------------------------------------------------------------------------
(* InsertStmt *)

\* values is the empty sequence (nil) when Values was never called
InsertStmt(table, fieldNames, values) ==
    [table |-> table, fieldNames |-> fieldNames, values |-> values]

\* Table.Insert(r): store r under the next record id
TableInsert(t, id, r) == Append(t, [id |-> id, r |-> r])

\* recordIDToTable(recordID)
recordIDToTable(id) == << << [Name |-> "recordID", Type |-> "Bytes", Data |-> id] >> >>

Inserted(t, id, fb) ==
    Outcome("nil", << >>, recordIDToTable(id), 0, "none", << >>, TableInsert(t, id, fb))

\* loop of runWithoutSelectedFields over the schema fields
RECURSIVE WithoutFieldsLoop(_, _, _)
WithoutFieldsLoop(i, idx, st) ==
    IF idx > Len(Schema) \/ st.err # "nil" THEN st
    ELSE LET sf == Schema[idx]
             sc == Eval(i.values[idx], << >>)
         IN  IF sc.err # "nil" THEN [st EXCEPT !.err = sc.err]
             ELSE IF sc.v.Type # sf.Type THEN [st EXCEPT !.err = "type"]
             ELSE WithoutFieldsLoop(i, idx + 1,
                    [st EXCEPT !.fb = Add(st.fb, Field(sf.Name, Value(sf.Type, sc.v.Data)))])

\* runWithoutSelectedFields not looking at whether the table has a schema
runWithoutSelectedFieldsAnyTable(i, t, id, isSchemaful) ==
    IF Len(Schema) # Len(i.values) THEN Failed("field count", 0, "none", t)
    ELSE Let(WithoutFieldsLoop(i, 1, [err |-> "nil", fb |-> << >>]), LAMBDA st :
            IF st.err # "nil" THEN Failed(st.err, 0, "none", t)
            ELSE Inserted(t, id, st.fb))

runWithoutSelectedFields(i, t, id, isSchemaful) ==
    IF ~isSchemaful THEN Failed("fields must be selected", 0, "none", t)
    ELSE IF Len(Schema) # Len(i.values) THEN Failed("field count", 0, "none", t)
    ELSE Let(WithoutFieldsLoop(i, 1, [err |-> "nil", fb |-> << >>]), LAMBDA st :
            IF st.err # "nil" THEN Failed(st.err, 0, "none", t)
            ELSE Inserted(t, id, st.fb))

\* loop of runSchemalessWithSelectedFields over the field names
RECURSIVE SchemalessLoop(_, _, _)
SchemalessLoop(i, idx, st) ==
    IF idx > Len(i.fieldNames) \/ st.err # "nil" THEN st
    ELSE LET sc == Eval(i.values[idx], << >>)
         IN  IF sc.err # "nil" THEN [st EXCEPT !.err = sc.err]
             ELSE SchemalessLoop(i, idx + 1,
                    [st EXCEPT !.fb = Add(st.fb, Field(i.fieldNames[idx], sc.v))])

runSchemalessWithSelectedFields(i, t, id) ==
    IF Len(i.fieldNames) # Len(i.values) THEN Failed("cardinality", 0, "none", t)
    ELSE Let(SchemalessLoop(i, 1, [err |-> "nil", fb |-> << >>]), LAMBDA st :
            IF st.err # "nil" THEN Failed(st.err, 0, "none", t)
            ELSE Inserted(t, id, st.fb))

\* inner loop of runSchemafulWithSelectedFields: the field names equal to
\* the schema field sf; i.values[idx] with idx beyond the values panics
\* (index out of range)
RECURSIVE SchemafulInner(_, _, _, _)
SchemafulInner(i, sf, idx, st) ==
    IF idx > Len(i.fieldNames) \/ st.err # "nil" THEN st
    ELSE IF i.fieldNames[idx] # sf.Name THEN SchemafulInner(i, sf, idx + 1, st)
    ELSE IF idx > Len(i.values) THEN [st EXCEPT !.err = "panic"]
    ELSE LET sc == Eval(i.values[idx], << >>)
         IN  IF sc.err # "nil" THEN [st EXCEPT !.err = sc.err]
             ELSE IF sc.v.Type # sf.Type THEN [st EXCEPT !.err = "type"]
             ELSE SchemafulInner(i, sf, idx + 1,
                    [st EXCEPT !.fb = Add(st.fb, Field(i.fieldNames[idx], sc.v)),
                               !.found = TRUE])

\* SchemafulOuter leaving out the schema fields the field list does not name
RECURSIVE SchemafulOuterNoZero(_, _, _)
SchemafulOuterNoZero(i, k, st) ==
    IF k > Len(Schema) \/ st.err # "nil" THEN st
    ELSE Let(SchemafulInner(i, Schema[k], 1, [st EXCEPT !.found = FALSE]), LAMBDA in :
            IF in.err # "nil" THEN in
            ELSE SchemafulOuterNoZero(i, k + 1, in))

\* outer loop of runSchemafulWithSelectedFields over the schema fields
RECURSIVE SchemafulOuter(_, _, _)
SchemafulOuter(i, k, st) ==
    IF k > Len(Schema) \/ st.err # "nil" THEN st
    ELSE Let(SchemafulInner(i, Schema[k], 1, [st EXCEPT !.found = FALSE]), LAMBDA in :
            IF in.err # "nil" THEN in
            ELSE IF ~in.found
                 THEN SchemafulOuter(i, k + 1,
                        [in EXCEPT !.fb = Add(in.fb,
                            Field(Schema[k].Name, ZeroValue(Schema[k].Type)))])
            ELSE SchemafulOuter(i, k + 1, in))

runSchemafulWithSelectedFields(i, t, id) ==
    Let(SchemafulOuter(i, 1, [err |-> "nil", fb |-> << >>, found |-> FALSE]), LAMBDA st :
        IF st.err # "nil" THEN Failed(st.err, 0, "none", t)
        ELSE Inserted(t, id, st.fb))

InsertStmtRun(i, t, id, isSchemaful) ==
    IF ~i.table THEN Failed("missing table selector", 0, "none", t)
    ELSE IF i.values = << >> THEN Failed("empty values", 0, "none", t)
    ELSE IF Len(i.fieldNames) = 0 THEN runWithoutSelectedFields(i, t, id, isSchemaful)
    ELSE IF ~isSchemaful THEN runSchemalessWithSelectedFields(i, t, id)
    ELSE runSchemafulWithSelectedFields(i, t, id)

----------------------------------------------------------------------------
(* UpdateStmt *)

\* sets: the Set calls in the order they were made, each [name, e]
UpdateStmt(table, sets, where) == [table |-> table, sets |-> sets, where |-> where]

SetCall(n, e) == [name |-> n, e |-> e]

\* the keys of the map u.pairs
PairKeys(sets) == {sets[j].name : j \in 1..Len(sets)}

\* u.pairs[fname]: the expression of the last Set call for fname
PairExpr(sets, fname) ==
    LET js == {j \in 1..Len(sets) : sets[j].name = fname}
        jmax == CHOOSE j \in js : \A k \in js : k <= j
    IN  sets[jmax].e

\* the orders in which a range over a map with the keys S can visit them
MapOrders(S) ==
    {p \in [1..Cardinality(S) -> S] : \A x, y \in 1..Cardinality(S) : x # y => p[x] # p[y]}

\* Table.Replace(recordID, r)
TableReplace(t, id, r) == [j \in 1..Len(t) |-> IF t[j].id = id THEN [id |-> id, r |-> r] ELSE t[j]]

\* the loop evaluating each expression against the field buffer, with the
\* assignments made so far
RECURSIVE PairsLoopEvalUpdated(_, _, _, _, _, _, _)
PairsLoopEvalUpdated(u, isSchemaful, order, j, id, r, st) ==
    IF j > Len(order) \/ st.err # "nil" THEN st
    ELSE
    LET fname == order[j]
        e == PairExpr(u.sets, fname)
    IN  IF ~HasField(st.fb, fname) THEN [st EXCEPT !.err = "field not found"]
        ELSE
        LET f == GetField(st.fb, fname)
            s == Eval(e, st.fb)
        IN  IF s.err # "nil" THEN [st EXCEPT !.err = s.err]
            ELSE IF isSchemaful /\ SchemaIndex(fname, 1) = 0
                 THEN [st EXCEPT !.err = "field not found"]
            ELSE IF isSchemaful /\ f.Type # Schema[SchemaIndex(fname, 1)].Type
                 THEN [st EXCEPT !.err = "type"]
            ELSE
            Let(Replace(st.fb, f.Name, [f EXCEPT !.Type = s.v.Type, !.Data = s.v.Data]),
                LAMBDA fb :
                PairsLoopEvalUpdated(u, isSchemaful, order, j + 1, id, r,
                    [st EXCEPT !.fb = fb, !.t = TableReplace(st.t, id, fb),
                               !.done = Append(st.done, fname)]))

\* the loop over u.pairs in the callback of UpdateStmt.Run, for the row
\* (id, r); order is the order in which the map is visited; st holds the
\* field buffer fb, the table t and the names assigned so far
RECURSIVE PairsLoop(_, _, _, _, _, _, _)
PairsLoop(u, isSchemaful, order, j, id, r, st) ==
    IF j > Len(order) \/ st.err # "nil" THEN st
    ELSE
    LET fname == order[j]
        e == PairExpr(u.sets, fname)
    IN  IF ~HasField(st.fb, fname) THEN [st EXCEPT !.err = "field not found"]
        ELSE
        LET f == GetField(st.fb, fname)
            s == Eval(e, r)
        IN  IF s.err # "nil" THEN [st EXCEPT !.err = s.err]
            ELSE IF isSchemaful /\ SchemaIndex(fname, 1) = 0
                 THEN [st EXCEPT !.err = "field not found"]
            ELSE IF isSchemaful /\ f.Type # Schema[SchemaIndex(fname, 1)].Type
                 THEN [st EXCEPT !.err = "type"]
            ELSE
            Let(Replace(st.fb, f.Name, [f EXCEPT !.Type = s.v.Type, !.Data = s.v.Data]),
                LAMBDA fb :
                PairsLoop(u, isSchemaful, order, j + 1, id, r,
                    [st EXCEPT !.fb = fb, !.t = TableReplace(st.t, id, fb),
                               !.done = Append(st.done, fname)]))

\* ForEach with the callback of UpdateStmt.Run; orders[k] is the map order
\* of the k-th row
RECURSIVE UpdateEach(_, _, _, _, _, _)
UpdateEach(u, isSchemaful, rows, orders, k, st) ==
    IF k > Len(rows) \/ st.err # "nil" THEN st
    ELSE Let(PairsLoop(u, isSchemaful, orders[k], 1, rows[k].id, rows[k].r,
                 [err |-> "nil", fb |-> rows[k].r, t |-> st.t, done |-> << >>]),
             LAMBDA p :
             UpdateEach(u, isSchemaful, rows, orders, k + 1,
                [err |-> p.err, t |-> p.t, applied |-> Append(st.applied, p.done)]))

UpdateStmtRun(u, t, isSchemaful, orders) ==
    IF ~u.table THEN Failed("missing table selector", 0, "none", t)
    ELSE IF Len(u.sets) = 0 THEN Failed("Set method not called", 0, "none", t)
    ELSE
    Let(Source(t, u.where, -1, -1), LAMBDA s :
        IF s.err # "nil" THEN Failed(s.err, s.evals, s.source, t)
        ELSE Let(UpdateEach(u, isSchemaful, s.rows, orders, 1,
                     [err |-> "nil", t |-> t, applied |-> << >>]), LAMBDA st :
                Outcome(st.err, s.rows, << >>, s.evals, s.source, st.applied, st.t)))

----------------------------------------------------------------------------
(* The statements the callers build *)

Int1 == IntValue(1)
Bool1 == BoolValue(1)
Float1 == FloatValue(1)

IndexAnswers ==
    { <<TRUE, "nil">>, <<FALSE, "nil">>, <<FALSE, ErrIndexNotFound>>,
      <<TRUE, ErrIndexNotFound>>, <<FALSE, "other">> }

IndexExprs == { IEq("b", Bool1, x[1], x[2]) : x \in IndexAnswers }

WhereExprs == { NoExpr, Eq("b", Bool1), Strict("a") } \cup IndexExprs

\* the arguments of Offset(k) and Limit(m), NoExpr when not called
Args == { NoExpr } \cup { Lit(IntValue(n)) : n \in 0..MaxArg }

Selectors == { << >>, << "b", "a" >>, << "a", "c" >>, << "a", "a" >> }

SelectStmts ==
    { SelectStmt(TRUE, << "a" >>, w, off, lim) :
        w \in WhereExprs, off \in Args, lim \in Args }
    \cup { SelectStmt(TRUE, sel, w, NoExpr, NoExpr) :
        sel \in Selectors, w \in { Eq("b", Bool1), IEq("b", Bool1, TRUE, "nil") } }
    \cup { SelectStmt(TRUE, << "a" >>, Eq("b", Bool1), off, NoExpr) :
        off \in { Lit(Bool1), Lit(Float1), Fail } }
    \cup { SelectStmt(TRUE, << "a" >>, Eq("b", Bool1), NoExpr, lim) :
        lim \in { Lit(Bool1), Lit(Float1), Fail } }
    \cup { SelectStmt(FALSE, << >>, NoExpr, NoExpr, NoExpr) }

DeleteStmts ==
    { DeleteStmt(TRUE, w) : w \in WhereExprs } \cup { DeleteStmt(FALSE, NoExpr) }

InsertValues == { Lit(Int1), Lit(Bool1) }

InsertStmts ==
    { InsertStmt(TRUE, fn, vs) :
        fn \in { << >>, << "a" >>, << "a", "b" >>, << "b", "a" >>,
                 << "a", "a" >>, << "a", "c" >> },
        vs \in { << >>, << Fail >> }
               \cup { << v >> : v \in InsertValues }
               \cup { << v, w >> : v \in InsertValues, w \in InsertValues } }
    \cup { InsertStmt(FALSE, << >>, << >>) }

SetCalls ==
    { SetCall("a", Lit(Int1)), SetCall("a", Lit(Bool1)),
      SetCall("b", Lit(Int1)), SetCall("b", Fail),
      SetCall("a", Ref("b")), SetCall("b", Ref("a")) }

UpdateWheres ==
    { NoExpr, Eq("b", Bool1), IEq("b", Bool1, TRUE, "nil"),
      IEq("b", Bool1, FALSE, ErrIndexNotFound), IEq("b", Bool1, FALSE, "other") }

UpdateStmts ==
    { UpdateStmt(TRUE, ss, w) :
        ss \in { << >> } \cup { << x >> : x \in SetCalls }
               \cup { << x, y >> : x \in SetCalls, y \in SetCalls },
        w \in UpdateWheres }
    \cup { UpdateStmt(FALSE, << >>, NoExpr) }

----------------------------------------------------------------------------
(* scanner.Token: the tokens of the language, named as the constants are *)

SpecialTokens == { "ILLEGAL", "EOF", "WS", "COMMENT" }

LiteralTokens ==
    { "IDENT", "NAMEDPARAM", "POSITIONALPARAM", "NUMBER", "INTEGER", "STRING",
      "BADSTRING", "BADESCAPE", "TRUE", "FALSE", "NULL", "REGEX", "BADREGEX" }

\* the constants between operatorBeg and operatorEnd
OperatorTokens ==
    { "ADD", "SUB", "MUL", "DIV", "MOD", "BITWISEAND", "BITWISEOR", "BITWISEXOR",
      "BETWEEN", "AND", "OR", "EQ", "NEQ", "EQREGEX", "NEQREGEX", "LT", "LTE",
      "GT", "GTE", "IN", "NIN", "IS", "ISN", "LIKE", "CONCAT" }

PunctuationTokens ==
    { "LPAREN", "RPAREN", "LBRACKET", "RBRACKET", "LSBRACKET", "RSBRACKET",
      "COMMA", "COLON", "DOUBLECOLON", "SEMICOLON", "DOT" }

\* the constants between keywordBeg and the type aliases
KeywordTokens ==
    { "ADD_KEYWORD", "ALTER", "AS", "ASC", "BEGIN", "BY", "CAST", "COMMIT",
      "CREATE", "DEFAULT", "DELETE", "DESC", "DISTINCT", "DROP", "EXISTS",
      "EXPLAIN", "FIELD", "FROM", "GROUP", "IF", "INDEX", "INSERT", "INTO",
      "KEY", "LIMIT", "NOT", "OFFSET", "ON", "ONLY", "ORDER", "PRECISION",
      "PRIMARY", "READ", "REINDEX", "RENAME", "RETURNING", "ROLLBACK", "SELECT",
      "SET", "TABLE", "TO", "TRANSACTION", "UNIQUE", "UNSET", "UPDATE", "VALUES",
      "WHERE", "WRITE" }

TypeTokens ==
    { "TYPEARRAY", "TYPEBIGINT", "TYPEBLOB", "TYPEBOOL", "TYPEBYTES",
      "TYPECHARACTER", "TYPEDOCUMENT", "TYPEDOUBLE", "TYPEINT", "TYPEINT2",
      "TYPEINT8", "TYPEINTEGER", "TYPEMEDIUMINT", "TYPESMALLINT", "TYPETEXT",
      "TYPETINYINT", "TYPEREAL", "TYPEVARCHAR" }

\* the constants that only delimit the groups
MarkerTokens == { "literalEnd", "operatorBeg", "operatorEnd", "keywordBeg", "keywordEnd" }

\* scanner.RECORDS, the keyword src/insert.go tests for
RecordsToken == "RECORDS"

Tokens ==
    SpecialTokens \cup LiteralTokens \cup OperatorTokens \cup PunctuationTokens
    \cup KeywordTokens \cup TypeTokens \cup MarkerTokens \cup { RecordsToken }

\* the tokens the array tokens gives their own name
NamedAsConstant ==
    { "ILLEGAL", "EOF", "WS", "IDENT", "NUMBER", "STRING", "BADSTRING",
      "BADESCAPE", "TRUE", "FALSE", "REGEX", "NULL", "BETWEEN", "AND", "OR",
      "IN", "IS", "LIKE" }
    \cup (KeywordTokens \ { "ADD_KEYWORD" }) \cup { RecordsToken }

\* the name of a type alias without its prefix TYPE
TypeName(tok) ==
    CASE tok = "TYPEARRAY" -> "ARRAY" [] tok = "TYPEBIGINT" -> "BIGINT"
      [] tok = "TYPEBLOB" -> "BLOB" [] tok = "TYPEBOOL" -> "BOOL"
      [] tok = "TYPEBYTES" -> "BYTES" [] tok = "TYPECHARACTER" -> "CHARACTER"
      [] tok = "TYPEDOCUMENT" -> "DOCUMENT" [] tok = "TYPEDOUBLE" -> "DOUBLE"
      [] tok = "TYPEINT" -> "INT" [] tok = "TYPEINT2" -> "INT2"
      [] tok = "TYPEINT8" -> "INT8" [] tok = "TYPEINTEGER" -> "INTEGER"
      [] tok = "TYPEMEDIUMINT" -> "MEDIUMINT" [] tok = "TYPESMALLINT" -> "SMALLINT"
      [] tok = "TYPETEXT" -> "TEXT" [] tok = "TYPETINYINT" -> "TINYINT"
      [] tok = "TYPEREAL" -> "REAL" [] tok = "TYPEVARCHAR" -> "VARCHAR"

\* Token.String(): the entry of the array tokens, the empty string for a
\* token the array has no entry for
TokenString(tok) ==
    CASE tok \in NamedAsConstant -> tok
      [] tok \in TypeTokens -> TypeName(tok)
      [] tok = "POSITIONALPARAM" -> "?"
      [] tok = "ADD" -> "+" [] tok = "SUB" -> "-" [] tok = "MUL" -> "*"
      [] tok = "DIV" -> "/" [] tok = "MOD" -> "%"
      [] tok = "BITWISEAND" -> "&" [] tok = "BITWISEOR" -> "|"
      [] tok = "BITWISEXOR" -> "^"
      [] tok = "EQ" -> "=" [] tok = "NEQ" -> "!="
      [] tok = "EQREGEX" -> "=~" [] tok = "NEQREGEX" -> "!~"
      [] tok = "LT" -> "<" [] tok = "LTE" -> "<="
      [] tok = "GT" -> ">" [] tok = "GTE" -> ">="
      [] tok = "LPAREN" -> "(" [] tok = "RPAREN" -> ")"
      [] tok = "LBRACKET" -> "{" [] tok = "RBRACKET" -> "}"
      [] tok = "LSBRACKET" -> "[" [] tok = "RSBRACKET" -> "]"
      [] tok = "COMMA" -> "," [] tok = "COLON" -> ":"
      [] tok = "DOUBLECOLON" -> "::" [] tok = "SEMICOLON" -> ";"
      [] tok = "DOT" -> "."
      [] tok = "ADD_KEYWORD" -> "ADD"
      [] OTHER -> ""

\* Precedence without the case of the concatenation operator
PrecedenceNoConcat(tok) ==
    CASE tok = "OR" -> 1
      [] tok = "AND" -> 2
      [] tok \in { "EQ", "NEQ", "IS", "IN", "LIKE", "EQREGEX", "NEQREGEX", "BETWEEN" } -> 3
      [] tok \in { "LT", "LTE", "GT", "GTE" } -> 4
      [] tok \in { "BITWISEOR", "BITWISEXOR", "BITWISEAND" } -> 5
      [] tok \in { "ADD", "SUB" } -> 6
      [] tok \in { "MUL", "DIV", "MOD" } -> 7
      [] OTHER -> 0

\* Token.Precedence(): the operator precedence of the binary operator token
Precedence(tok) ==
    CASE tok = "OR" -> 1
      [] tok = "AND" -> 2
      [] tok \in { "EQ", "NEQ", "IS", "IN", "LIKE", "EQREGEX", "NEQREGEX", "BETWEEN" } -> 3
      [] tok \in { "LT", "LTE", "GT", "GTE" } -> 4
      [] tok \in { "BITWISEOR", "BITWISEXOR", "BITWISEAND" } -> 5
      [] tok \in { "ADD", "SUB" } -> 6
      [] tok \in { "MUL", "DIV", "MOD" } -> 7
      [] tok = "CONCAT" -> 8
      [] OTHER -> 0

\* Token.IsOperator()
IsOperator(tok) == tok \in OperatorTokens

\* no method of a token was called
NoToken == [tok |-> "ILLEGAL", called |-> { }, prec |-> 0, str |-> "", isOp |-> FALSE]

----------------------------------------------------------------------------
(* The parser of CREATE and INSERT statements (src/insert.go) *)

\* longest field list of a CREATE INDEX the parser is given
MaxFields == 3

\* a token of the scanner: its kind and, for an identifier, its literal
Tok(t, lit) == [tok |-> t, lit |-> lit]
Kw(t) == Tok(t, "")
Ident(n) == Tok("IDENT", n)
EOFTok == Kw("EOF")

\* scanner.Tokstr(tok, lit): the literal when there is one, the token's
\* string otherwise
Tokstr(t) == IF t.lit # "" THEN t.lit ELSE TokenString(t.tok)

NoError == [set |-> FALSE, found |-> "", expected |-> << >>, pos |-> 0, msg |-> ""]

\* newParseError(found, expected, pos)
newParseError(found, expected, pos) ==
    [set |-> TRUE, found |-> found, expected |-> expected, pos |-> pos, msg |-> ""]

\* &ParseError{Message: msg}
MessageError(msg) ==
    [set |-> TRUE, found |-> "", expected |-> << >>, pos |-> 0, msg |-> msg]

\* the parser over the tokens toks (white space left out): pos tokens were
\* read, unscans counts the Unscan calls since the last scan and most is
\* the largest value unscans ever had
NewParser(toks) == [toks |-> toks, pos |-> 0, unscans |-> 0, most |-> 0]

\* p.ScanIgnoreWhitespace(): the next token, its position, the parser after
ScanIgnoreWhitespace(ps) ==
    [t |-> IF ps.pos + 1 <= Len(ps.toks) THEN ps.toks[ps.pos + 1] ELSE EOFTok,
     at |-> ps.pos + 1,
     ps |-> [ps EXCEPT !.pos = @ + 1, !.unscans = 0]]

\* p.Unscan(): push the token read last back.  The parser has one token of
\* push-back: a second Unscan before the next scan pushes nothing more back
Unscan(ps) ==
    [ps EXCEPT !.pos = IF ps.unscans = 0 /\ ps.pos > 0 THEN @ - 1 ELSE @,
               !.unscans = @ + 1,
               !.most = Max(@, ps.unscans + 1)]

\* what a parsing function returns: the parser after it, its error, its value
Returned(ps, err, v) == [ps |-> ps, err |-> err, v |-> v]

\* p.ParseIdent()
ParseIdent(ps) ==
    Let(ScanIgnoreWhitespace(ps), LAMBDA s :
        IF s.t.tok # "IDENT"
        THEN Returned(s.ps, newParseError(Tokstr(s.t), << "identifier" >>, s.at), "")
        ELSE Returned(s.ps, NoError, s.t.lit))

\* the loop of p.ParseIdentList() over ", identifier"
RECURSIVE IdentListLoop(_, _)
IdentListLoop(ps, idents) ==
    Let(ScanIgnoreWhitespace(ps), LAMBDA s :
        IF s.t.tok # "COMMA" THEN Returned(Unscan(s.ps), NoError, idents)
        ELSE Let(ParseIdent(s.ps), LAMBDA r :
                IF r.err.set THEN Returned(r.ps, r.err, << >>)
                ELSE IdentListLoop(r.ps, Append(idents, r.v))))

\* p.ParseIdentList(): identifier {, identifier}
ParseIdentList(ps) ==
    Let(ParseIdent(ps), LAMBDA r :
        IF r.err.set THEN Returned(r.ps, r.err, << >>)
        ELSE IdentListLoop(r.ps, << r.v >>))

FieldListReturned(ps, err, fields, ok) ==
    [ps |-> ps, err |-> err, v |-> fields, ok |-> ok]

\* parseFieldList keeping the token it read when it is not (
parseFieldListNoUnscan(ps) ==
    Let(ScanIgnoreWhitespace(ps), LAMBDA s :
        IF s.t.tok # "LPAREN"
        THEN FieldListReturned(s.ps, NoError, << >>, FALSE)
        ELSE Let(ParseIdentList(s.ps), LAMBDA l :
                IF l.err.set THEN FieldListReturned(l.ps, l.err, << >>, FALSE)
                ELSE Let(ScanIgnoreWhitespace(l.ps), LAMBDA c :
                        IF c.t.tok # "RPAREN"
                        THEN FieldListReturned(c.ps,
                                newParseError(Tokstr(c.t), << ")" >>, c.at), << >>, FALSE)
                        ELSE FieldListReturned(c.ps, NoError, l.v, TRUE))))

\* parseFieldList: (field, field, ...), if there is one
parseFieldList(ps) ==
    Let(ScanIgnoreWhitespace(ps), LAMBDA s :
        IF s.t.tok # "LPAREN"
        THEN FieldListReturned(Unscan(s.ps), NoError, << >>, FALSE)
        ELSE Let(ParseIdentList(s.ps), LAMBDA l :
                IF l.err.set THEN FieldListReturned(l.ps, l.err, << >>, FALSE)
                ELSE Let(ScanIgnoreWhitespace(l.ps), LAMBDA c :
                        IF c.t.tok # "RPAREN"
                        THEN FieldListReturned(c.ps,
                                newParseError(Tokstr(c.t), << ")" >>, c.at), << >>, FALSE)
                        ELSE FieldListReturned(c.ps, NoError, l.v, TRUE))))

\* parseIfNotExists
parseIfNotExists(ps) ==
    Let(ScanIgnoreWhitespace(ps), LAMBDA s :
        IF s.t.tok # "IF" THEN Returned(Unscan(s.ps), NoError, FALSE)
        ELSE Let(ScanIgnoreWhitespace(s.ps), LAMBDA n :
                IF n.t.tok # "NOT"
                THEN Returned(n.ps,
                        newParseError(Tokstr(n.t), << "NOT", "EXISTS" >>, n.at), FALSE)
                ELSE Let(ScanIgnoreWhitespace(n.ps), LAMBDA e :
                        IF e.t.tok # "EXISTS"
                        THEN Returned(e.ps,
                                newParseError(Tokstr(e.t), << "EXISTS" >>, e.at), FALSE)
                        ELSE Returned(e.ps, NoError, TRUE))))

\* p.parseType(): the name of a type
parseType(ps) ==
    Let(ScanIgnoreWhitespace(ps), LAMBDA s :
        IF s.t.tok \notin TypeTokens
        THEN Returned(s.ps, newParseError(Tokstr(s.t), << "type" >>, s.at), "")
        ELSE Returned(s.ps, NoError, s.t.tok))

NoKey == [name |-> "", type |-> ""]

\* parseTableOptions: (name type PRIMARY KEY), if there is one
parseTableOptions(ps) ==
    Let(ScanIgnoreWhitespace(ps), LAMBDA s :
        IF s.t.tok # "LPAREN" THEN Returned(Unscan(s.ps), NoError, NoKey)
        ELSE Let(ParseIdent(s.ps), LAMBDA k :
        IF k.err.set THEN Returned(k.ps, k.err, NoKey)
        ELSE Let(parseType(k.ps), LAMBDA tp :
        IF tp.err.set THEN Returned(tp.ps, tp.err, NoKey)
        ELSE Let(ScanIgnoreWhitespace(tp.ps), LAMBDA pr :
        IF pr.t.tok # "PRIMARY"
        THEN Returned(pr.ps, newParseError(Tokstr(pr.t), << "PRIMARY", "KEY" >>, pr.at), NoKey)
        ELSE Let(ScanIgnoreWhitespace(pr.ps), LAMBDA ky :
        IF ky.t.tok # "KEY"
        THEN Returned(ky.ps, newParseError(Tokstr(ky.t), << "KEY" >>, ky.at), NoKey)
        ELSE Let(ScanIgnoreWhitespace(ky.ps), LAMBDA c :
        IF c.t.tok # "RPAREN"
        THEN Returned(c.ps, newParseError(Tokstr(c.t), << ")" >>, c.at), NoKey)
        ELSE Returned(c.ps, NoError, [name |-> k.v, type |-> tp.v])))))))

createTableStmt(ifNotExists, tableName, key) ==
    [kind |-> "createTable", ifNotExists |-> ifNotExists, tableName |-> tableName,
     primaryKeyName |-> key.name, primaryKeyType |-> key.type]

\* parseCreateTableStatement
parseCreateTableStatement(ps) ==
    Let(parseIfNotExists(ps), LAMBDA i :
        IF i.err.set THEN Returned(i.ps, i.err, createTableStmt(FALSE, "", NoKey))
        ELSE Let(ParseIdent(i.ps), LAMBDA n :
        IF n.err.set THEN Returned(n.ps, n.err, createTableStmt(i.v, "", NoKey))
        ELSE Let(parseTableOptions(n.ps), LAMBDA o :
        IF o.err.set THEN Returned(o.ps, o.err, createTableStmt(i.v, n.v, NoKey))
        ELSE Returned(o.ps, NoError, createTableStmt(i.v, n.v, o.v)))))

createIndexStmt(unique, ifNotExists, indexName, tableName, fieldName) ==
    [kind |-> "createIndex", unique |-> unique, ifNotExists |-> ifNotExists,
     indexName |-> indexName, tableName |-> tableName, fieldName |-> fieldName]

\* the IF NOT EXISTS of parseCreateIndexStatement
IndexIfNotExists(ps) ==
    Let(ScanIgnoreWhitespace(ps), LAMBDA s :
        IF s.t.tok # "IF" THEN Returned(Unscan(s.ps), NoError, FALSE)
        ELSE Let(ScanIgnoreWhitespace(s.ps), LAMBDA n :
                IF n.t.tok # "NOT"
                THEN Returned(n.ps,
                        newParseError(Tokstr(n.t), << "NOT", "EXISTS" >>, n.at), FALSE)
                ELSE Let(ScanIgnoreWhitespace(n.ps), LAMBDA e :
                        IF e.t.tok # "EXISTS"
                        THEN Returned(e.ps,
                                newParseError(Tokstr(e.t), << "EXISTS" >>, e.at), FALSE)
                        ELSE Returned(e.ps, NoError, TRUE))))

\* parseCreateIndexStatement taking the first field of any field list
parseCreateIndexStatementFirstField(ps, unique) ==
    Let(IndexIfNotExists(ps), LAMBDA i :
        IF i.err.set THEN Returned(i.ps, i.err, createIndexStmt(unique, FALSE, "", "", ""))
        ELSE Let(ParseIdent(i.ps), LAMBDA n :
        IF n.err.set THEN Returned(n.ps, n.err, createIndexStmt(unique, i.v, "", "", ""))
        ELSE Let(ScanIgnoreWhitespace(n.ps), LAMBDA o :
        IF o.t.tok # "ON"
        THEN Returned(o.ps, newParseError(Tokstr(o.t), << "ON" >>, o.at),
                      createIndexStmt(unique, i.v, n.v, "", ""))
        ELSE Let(ParseIdent(o.ps), LAMBDA t :
        IF t.err.set THEN Returned(t.ps, t.err, createIndexStmt(unique, i.v, n.v, "", ""))
        ELSE Let(parseFieldList(t.ps), LAMBDA f :
        IF f.err.set THEN Returned(f.ps, f.err, createIndexStmt(unique, i.v, n.v, t.v, ""))
        ELSE IF ~f.ok
        THEN Let(ScanIgnoreWhitespace(f.ps), LAMBDA x :
                Returned(x.ps, newParseError(Tokstr(x.t), << "(" >>, x.at),
                         createIndexStmt(unique, i.v, n.v, t.v, "")))
        ELSE Returned(f.ps, NoError, createIndexStmt(unique, i.v, n.v, t.v, f.v[1])))))))

\* parseCreateIndexStatement(unique)
parseCreateIndexStatement(ps, unique) ==
    Let(IndexIfNotExists(ps), LAMBDA i :
        IF i.err.set THEN Returned(i.ps, i.err, createIndexStmt(unique, FALSE, "", "", ""))
        ELSE Let(ParseIdent(i.ps), LAMBDA n :
        IF n.err.set THEN Returned(n.ps, n.err, createIndexStmt(unique, i.v, "", "", ""))
        ELSE Let(ScanIgnoreWhitespace(n.ps), LAMBDA o :
        IF o.t.tok # "ON"
        THEN Returned(o.ps, newParseError(Tokstr(o.t), << "ON" >>, o.at),
                      createIndexStmt(unique, i.v, n.v, "", ""))
        ELSE Let(ParseIdent(o.ps), LAMBDA t :
        IF t.err.set THEN Returned(t.ps, t.err, createIndexStmt(unique, i.v, n.v, "", ""))
        ELSE Let(parseFieldList(t.ps), LAMBDA f :
        IF f.err.set THEN Returned(f.ps, f.err, createIndexStmt(unique, i.v, n.v, t.v, ""))
        ELSE IF ~f.ok
        THEN Let(ScanIgnoreWhitespace(f.ps), LAMBDA x :
                Returned(x.ps, newParseError(Tokstr(x.t), << "(" >>, x.at),
                         createIndexStmt(unique, i.v, n.v, t.v, "")))
        ELSE IF Len(f.v) # 1
        THEN Returned(f.ps,
                MessageError("indexes on more than one field not supported"),
                createIndexStmt(unique, i.v, n.v, t.v, ""))
        ELSE Returned(f.ps, NoError, createIndexStmt(unique, i.v, n.v, t.v, f.v[1])))))))

\* what a parsing function of an optional clause returns: also whether the
\* clause was found
ClauseReturned(ps, err, v, found) == [ps |-> ps, err |-> err, v |-> v, ok |-> found]

\* the tokens a primary expression is made of: a literal, a parameter or a
\* field reference
OperandTokens ==
    { "IDENT", "INTEGER", "NUMBER", "STRING", "TRUE", "FALSE", "NULL",
      "NAMEDPARAM", "POSITIONALPARAM" }

\* p.parseUnaryExpr(): a primary expression
parseUnaryExpr(ps) ==
    Let(ScanIgnoreWhitespace(ps), LAMBDA s :
        IF s.t.tok \notin OperandTokens
        THEN Returned(s.ps, newParseError(Tokstr(s.t), << "expression" >>, s.at), << >>)
        ELSE Returned(s.ps, NoError, << s.t >>))

\* the loop of p.ParseExpr() over "operator operand"; the token that is no
\* operator is pushed back
RECURSIVE ExprLoop(_, _)
ExprLoop(ps, e) ==
    Let(ScanIgnoreWhitespace(ps), LAMBDA s :
        IF ~IsOperator(s.t.tok) THEN Returned(Unscan(s.ps), NoError, e)
        ELSE Let(parseUnaryExpr(s.ps), LAMBDA r :
                IF r.err.set THEN Returned(r.ps, r.err, << >>)
                ELSE ExprLoop(r.ps, e \o << s.t >> \o r.v)))

\* p.ParseExpr(): operand {operator operand}; the expression is kept as
\* the tokens it is made of
ParseExpr(ps) ==
    Let(parseUnaryExpr(ps), LAMBDA r :
        IF r.err.set THEN Returned(r.ps, r.err, << >>)
        ELSE ExprLoop(r.ps, r.v))

\* the nil parseParam returns for a token that is no parameter
NoParam == [param |-> ""]

\* p.parseParam(): a named or positional parameter; the token that is
\* neither is read and not pushed back; a $ without a name is an error
parseParam(ps) ==
    Let(ScanIgnoreWhitespace(ps), LAMBDA s :
        CASE s.t.tok = "NAMEDPARAM" ->
                IF s.t.lit = "$"
                THEN Returned(s.ps, newParseError(Tokstr(s.t), << "param name" >>, s.at),
                              NoParam)
                ELSE Returned(s.ps, NoError, [param |-> s.t.lit])
          [] s.t.tok = "POSITIONALPARAM" -> Returned(s.ps, NoError, [param |-> "?"])
          [] OTHER -> Returned(s.ps, NoError, NoParam))

\* the loop of parseExprList over ", expr"
RECURSIVE ExprListLoop(_, _)
ExprListLoop(ps, exprs) ==
    Let(ScanIgnoreWhitespace(ps), LAMBDA s :
        IF s.t.tok # "COMMA" THEN Returned(Unscan(s.ps), NoError, exprs)
        ELSE Let(ParseExpr(s.ps), LAMBDA e :
                IF e.err.set THEN Returned(e.ps, e.err, << >>)
                ELSE ExprListLoop(e.ps, Append(exprs, e.v))))

\* parseExprList: (expr, expr, ...)
parseExprList(ps) ==
    Let(ScanIgnoreWhitespace(ps), LAMBDA s :
        IF s.t.tok # "LPAREN"
        THEN Returned(s.ps, newParseError(Tokstr(s.t), << "(" >>, s.at), << >>)
        ELSE Let(ParseExpr(s.ps), LAMBDA e :
        IF e.err.set THEN Returned(e.ps, e.err, << >>)
        ELSE Let(ExprListLoop(e.ps, << e.v >>), LAMBDA l :
        IF l.err.set THEN Returned(l.ps, l.err, << >>)
        ELSE Let(ScanIgnoreWhitespace(l.ps), LAMBDA c :
        IF c.t.tok # "RPAREN"
        THEN Returned(c.ps, newParseError(Tokstr(c.t), << ")" >>, c.at), << >>)
        ELSE Returned(c.ps, NoError, l.v)))))

\* the loop of parseValues over ", (expr, ...)"
RECURSIVE ValuesLoop(_, _)
ValuesLoop(ps, valuesList) ==
    Let(ScanIgnoreWhitespace(ps), LAMBDA s :
        IF s.t.tok # "COMMA" THEN ClauseReturned(Unscan(s.ps), NoError, valuesList, TRUE)
        ELSE Let(parseExprList(s.ps), LAMBDA v :
                IF v.err.set THEN ClauseReturned(v.ps, v.err, << >>, TRUE)
                ELSE ValuesLoop(v.ps, Append(valuesList, v.v))))

\* parseValues: the VALUES clause, if there is one
parseValues(ps) ==
    Let(ScanIgnoreWhitespace(ps), LAMBDA s :
        IF s.t.tok # "VALUES" THEN ClauseReturned(Unscan(s.ps), NoError, << >>, FALSE)
        ELSE Let(parseExprList(s.ps), LAMBDA e :
                IF e.err.set THEN ClauseReturned(e.ps, e.err, << >>, TRUE)
                ELSE ValuesLoop(e.ps, << e.v >>)))

\* parseKV: IDENT : Expr
parseKV(ps) ==
    Let(ParseIdent(ps), LAMBDA k :
        IF k.err.set THEN Returned(k.ps, k.err, [K |-> "", V |-> << >>])
        ELSE Let(ScanIgnoreWhitespace(k.ps), LAMBDA c :
        IF c.t.tok # "COLON"
        THEN Returned(c.ps, newParseError(Tokstr(c.t), << ":" >>, c.at),
                      [K |-> "", V |-> << >>])
        ELSE Let(ParseExpr(c.ps), LAMBDA e :
        IF e.err.set THEN Returned(e.ps, e.err, [K |-> "", V |-> << >>])
        ELSE Returned(e.ps, NoError, [K |-> k.v, V |-> e.v]))))

\* the loop of parseKVList over ", k : Expr"
RECURSIVE KVListLoop(_, _)
KVListLoop(ps, pairs) ==
    Let(ScanIgnoreWhitespace(ps), LAMBDA s :
        IF s.t.tok # "COMMA" THEN Returned(Unscan(s.ps), NoError, pairs)
        ELSE Let(parseKV(s.ps), LAMBDA kv :
                IF kv.err.set THEN Returned(kv.ps, kv.err, << >>)
                ELSE KVListLoop(kv.ps, Append(pairs, kv.v))))

\* parseKVList: (k : Expr, k : Expr, ...), if there is one
parseKVList(ps) ==
    Let(ScanIgnoreWhitespace(ps), LAMBDA s :
        IF s.t.tok # "LPAREN" THEN ClauseReturned(Unscan(s.ps), NoError, << >>, FALSE)
        ELSE Let(parseKV(s.ps), LAMBDA kv :
        IF kv.err.set THEN ClauseReturned(kv.ps, kv.err, << >>, TRUE)
        ELSE Let(KVListLoop(kv.ps, << kv.v >>), LAMBDA l :
        IF l.err.set THEN ClauseReturned(l.ps, l.err, << >>, TRUE)
        ELSE Let(ScanIgnoreWhitespace(l.ps), LAMBDA c :
        IF c.t.tok # "RPAREN"
        THEN ClauseReturned(c.ps, newParseError(Tokstr(c.t), << ")" >>, c.at), << >>, TRUE)
        ELSE ClauseReturned(c.ps, NoError, l.v, TRUE)))))

\* parseRecord: a parameter or a key-value list
parseRecord(ps) ==
    Let(parseParam(ps), LAMBDA v :
        IF v.err.set THEN Returned(Unscan(v.ps), v.err, NoParam)
        ELSE IF v.v # NoParam THEN Returned(v.ps, NoError, v.v)
        ELSE Let(parseKVList(Unscan(v.ps)), LAMBDA kv :
        IF kv.err.set THEN Returned(kv.ps, kv.err, NoParam)
        ELSE IF ~kv.ok
        THEN Let(ScanIgnoreWhitespace(kv.ps), LAMBDA x :
                Returned(Unscan(x.ps),
                         newParseError(Tokstr(x.t), << "record" >>, x.at), NoParam))
        ELSE Returned(kv.ps, NoError, [pairs |-> kv.v])))

\* the loop of parseRecords over ", record"
RECURSIVE RecordsLoop(_, _)
RecordsLoop(ps, records) ==
    Let(ScanIgnoreWhitespace(ps), LAMBDA s :
        IF s.t.tok # "COMMA" THEN ClauseReturned(Unscan(s.ps), NoError, records, TRUE)
        ELSE Let(parseRecord(s.ps), LAMBDA r :
                IF r.err.set THEN ClauseReturned(r.ps, r.err, << >>, FALSE)
                ELSE RecordsLoop(r.ps, Append(records, r.v))))

\* parseRecords: the RECORDS clause, if there is one
parseRecords(ps) ==
    Let(ScanIgnoreWhitespace(ps), LAMBDA s :
        IF s.t.tok # RecordsToken
        THEN ClauseReturned(Unscan(s.ps), NoError, << >>, FALSE)
        ELSE Let(parseRecord(s.ps), LAMBDA r :
                IF r.err.set THEN ClauseReturned(r.ps, r.err, << >>, FALSE)
                ELSE RecordsLoop(r.ps, << r.v >>)))

insertStmt(tableName, fieldNames, values, records) ==
    [kind |-> "insert", tableName |-> tableName, fieldNames |-> fieldNames,
     values |-> values, records |-> records]

\* parseInsertStatement; the INSERT token has been read
parseInsertStatement(ps) ==
    Let(ScanIgnoreWhitespace(ps), LAMBDA s :
        IF s.t.tok # "INTO"
        THEN Returned(s.ps, newParseError(Tokstr(s.t), << "INTO" >>, s.at),
                      insertStmt("", << >>, << >>, << >>))
        ELSE Let(ParseIdent(s.ps), LAMBDA n :
        IF n.err.set THEN Returned(n.ps, n.err, insertStmt("", << >>, << >>, << >>))
        ELSE Let(parseFieldList(n.ps), LAMBDA f :
        IF f.err.set THEN Returned(f.ps, f.err, insertStmt(n.v, << >>, << >>, << >>))
        ELSE Let(parseValues(f.ps), LAMBDA v :
        IF v.err.set THEN Returned(v.ps, v.err, insertStmt(n.v, f.v, << >>, << >>))
        ELSE IF v.ok THEN Returned(v.ps, NoError, insertStmt(n.v, f.v, v.v, << >>))
        ELSE Let(parseRecords(v.ps), LAMBDA r :
        IF r.err.set THEN Returned(r.ps, r.err, insertStmt(n.v, f.v, << >>, << >>))
        ELSE IF ~r.ok
        THEN Let(ScanIgnoreWhitespace(r.ps), LAMBDA x :
                Returned(Unscan(x.ps),
                         newParseError(Tokstr(x.t), << "VALUES", "RECORDS" >>, x.at),
                         insertStmt(n.v, f.v, << >>, << >>)))
        ELSE Returned(r.ps, NoError, insertStmt(n.v, f.v, << >>, r.v)))))))

NoStatement == [kind |-> "nil"]

\* parseCreateStatement; the CREATE token has been read
parseCreateStatement(ps) ==
    Let(ScanIgnoreWhitespace(ps), LAMBDA s :
        CASE s.t.tok = "TABLE" -> parseCreateTableStatement(s.ps)
          [] s.t.tok = "UNIQUE" ->
                Let(ScanIgnoreWhitespace(s.ps), LAMBDA x :
                    IF x.t.tok # "INDEX"
                    THEN Returned(x.ps, newParseError(Tokstr(x.t), << "INDEX" >>, x.at),
                                  NoStatement)
                    ELSE parseCreateIndexStatement(x.ps, TRUE))
          [] s.t.tok = "INDEX" -> parseCreateIndexStatement(s.ps, FALSE)
          [] OTHER ->
                Returned(s.ps, newParseError(Tokstr(s.t), << "TABLE", "INDEX" >>, s.at),
                         NoStatement))

\* the parser was not called
NoParse == [called |-> FALSE, ps |-> NewParser(<< >>), err |-> NoError, v |-> NoStatement]

----------------------------------------------------------------------------
(* The stream operator TempTreeSort *)

\* documents a table scan hands to the operator
MaxDocs == 3

\* the bias of the sign-flipped encoding of an integer (one byte)
IntBias == 128

\* the encoding of a value as a key: the tag of its type, then its data,
\* an integer sign-flipped; keys compare as byte strings
EncodeValue(v) ==
    << TypeRank(v.Type), IF v.Type = "Int" THEN v.Data + IntBias ELSE v.Data >>

\* byte order of two keys of the same length
RECURSIVE BytesLess(_, _, _)
BytesLess(k1, k2, i) ==
    IF i > Len(k1) THEN FALSE
    ELSE IF k1[i] # k2[i] THEN k1[i] < k2[i]
    ELSE BytesLess(k1, k2, i + 1)

\* the key of a document with every tiebreak the same
SortKeyNoTiebreak(e, doc, seq) == EncodeValue(Eval(e, doc).v) \o << 0 >>

\* the key under which the document is put in the tree: the encoded value
\* of the sort expression, then the tiebreak, which grows with every
\* document
SortKey(e, doc, seq) == EncodeValue(Eval(e, doc).v) \o << seq >>

\* put in the ordered map tree (its entries in key order): a new entry
\* after the entries with a smaller key, the document of an entry that has
\* the key replaced
TreePut(tree, key, doc) ==
    LET below == SelectSeq(tree, LAMBDA x : BytesLess(x.key, key, 1))
        above == SelectSeq(tree, LAMBDA x : BytesLess(key, x.key, 1))
    IN  below \o << [key |-> key, doc |-> doc] >> \o above

\* the entry the iteration of the tree yields after k entries, forward or
\* in reverse
TreeAt(tree, k, reverse) == IF reverse THEN tree[Len(tree) - k] ELSE tree[k + 1]

\* no stream was built
NoSort ==
    [pc |-> "none", docs |-> << >>, e |-> NoExpr, reverse |-> FALSE,
     n |-> 0, tree |-> << >>, out |-> << >>]

----------------------------------------------------------------------------
(* stmt.ExecContext *)

\* no call of ExecContext yet; ctx is ctx.Err(): "nil" while the context is
\* not done
NoExec ==
    [pc |-> "idle", ctx |-> "nil", entry |-> "nil", p |-> [op |-> "none"],
     pre |-> << >>, orders |-> << >>, res |-> "nil", err |-> "nil"]

----------------------------------------------------------------------------
(* The state machine *)

NoLast == [op |-> "none"]

Ran(op, stmt, pre, out) == [op |-> op, stmt |-> stmt, pre |-> pre, out |-> out]

\* no recordStream yet: QueryContext was not called
NoStream ==
    [open |-> FALSE, records |-> << >>, failAt |-> -1, fields |-> << >>,
     cancelled |-> FALSE, closed |-> FALSE]

\* the iterate goroutine before newRecordStream starts it
NoIterate == [pc |-> "none", taken |-> 0, err |-> "nil", started |-> FALSE]

\* the consumer before its first call
NoCalls ==
    [pc |-> "idle", nNext |-> 0, out |-> << >>, nClose |-> 0,
     closeRet |-> "none", closedAt |-> "none", cols |-> << >>]

Init ==
    /\ schemaful \in BOOLEAN
    /\ tbl = << >>
    /\ nextID = 1
    /\ last = NoLast
    /\ rs = NoStream
    /\ iter = NoIterate
    /\ cons = NoCalls
    /\ input = << >>
    /\ parsed = NoParse
    /\ lex = NoToken
    /\ sorter = NoSort
    /\ exec = NoExec

\* SelectStmt.Run
Select ==
    /\ last = NoLast
    /\ \E q \in SelectStmts :
         last' = Ran("select", q, tbl, SelectStmtRun(q, tbl))
    /\ UNCHANGED <<schemaful, tbl, nextID, driverVars, parserVars, sorter, exec>>

\* DeleteStmt.Run
Delete ==
    /\ last = NoLast
    /\ \E d \in DeleteStmts :
         /\ last' = Ran("delete", d, tbl, DeleteStmtRun(d, tbl))
         /\ tbl' = last'.out.t
    /\ UNCHANGED <<schemaful, nextID, driverVars, parserVars, sorter, exec>>

\* InsertStmt.Run
Insert ==
    /\ last = NoLast
    /\ nextID <= MaxRecords
    /\ \E i \in InsertStmts :
         /\ last' = Ran("insert", i, tbl, InsertStmtRun(i, tbl, nextID, schemaful))
         /\ tbl' = last'.out.t
         /\ nextID' = IF last'.out.err = "nil" THEN nextID + 1 ELSE nextID
    /\ UNCHANGED <<schemaful, driverVars, parserVars, sorter, exec>>

\* UpdateStmt.Run; the order in which each range over the map u.pairs
\* visits its keys is not determined
Update ==
    /\ last = NoLast
    /\ \E u \in UpdateStmts :
       \E orders \in [1..Len(tbl) -> MapOrders(PairKeys(u.sets))] :
         /\ last' = Ran("update", u, tbl, UpdateStmtRun(u, tbl, schemaful, orders))
         /\ tbl' = last'.out.t
    /\ UNCHANGED <<schemaful, nextID, driverVars, parserVars, sorter, exec>>

\* the caller is done with the Result and goes on to build its next statement
Discard ==
    /\ last # NoLast
    /\ last' = NoLast
    /\ UNCHANGED <<schemaful, tbl, nextID, driverVars, parserVars, sorter, exec>>

Next == Select \/ Delete \/ Insert \/ Update \/ Discard

Spec == Init /\ [][Next]_vars

TypeOK ==
    /\ schemaful \in BOOLEAN
    /\ nextID \in 1..(MaxRecords + 1)
    /\ Len(tbl) <= MaxRecords
    /\ \A j \in 1..Len(tbl) : tbl[j].id < nextID

----------------------------------------------------------------------------
(* The sql driver: stmt.QueryContext and recordStream *)

\* calls of Next and of Close the consumer makes on one recordStream
MaxNext == 3
MaxClose == 2

\* the statements prepared on the connection: [op, stmt]
Prepared(op, stmt) == [op |-> op, stmt |-> stmt]

StreamInserts ==
    { InsertStmt(TRUE, << "a", "b" >>, << Lit(Int1), Lit(Bool1) >>),
      InsertStmt(TRUE, << "a" >>, << Lit(Int1) >>) }

StreamStmts ==
    { Prepared("select", SelectStmt(TRUE, sel, w, off, lim)) :
        sel \in { << >>, << "b", "a" >> },
        w \in { Eq("b", Bool1), Lit(Bool1) },
        off \in { NoExpr, Lit(IntValue(1)) },
        lim \in { NoExpr, Lit(IntValue(0)), Lit(IntValue(1)) } }
    \cup { Prepared("select", SelectStmt(TRUE, << "a" >>, Fail, NoExpr, NoExpr)),
           Prepared("delete", DeleteStmt(TRUE, Eq("b", Bool1))),
           Prepared("update",
                    UpdateStmt(TRUE, << SetCall("a", Lit(Int1)) >>, Eq("b", Bool1))) }

\* s.stmt.Run
StatementRun(p, t, isSchemaful, orders) ==
    CASE p.op = "select" -> SelectStmtRun(p.stmt, t)
      [] p.op = "delete" -> DeleteStmtRun(p.stmt, t)
      [] p.op = "update" -> UpdateStmtRun(p.stmt, t, isSchemaful, orders)

\* the map orders an UPDATE needs, one order for the other statements
OrdersOf(p, t) ==
    IF p.op = "update"
    THEN [1..Len(t) -> MapOrders(PairKeys(p.stmt.sets))]
    ELSE { << >> }

\* rs.fields as QueryContext sets it: the names of the field selectors of a
\* SELECT, nil for any other statement
StreamFields(p) ==
    IF p.op = "select" /\ Len(p.stmt.sel) > 0
    THEN [j \in 1..Len(p.stmt.sel) |-> p.stmt.sel[j]]
    ELSE << >>

\* newRecordStream(res): the stream, its context not cancelled, its channel
\* open; failAt is the number of records after which the Iterate of the
\* Result fails (engine error), -1 if it does not fail
newRecordStream(records, failAt, fields) ==
    [open |-> TRUE, records |-> records, failAt |-> failAt, fields |-> fields,
     cancelled |-> FALSE, closed |-> FALSE]

\* the outcome of one Next call
NextOutcome(k, dest, err) == [k |-> k, dest |-> dest, err |-> err]
EOF == NextOutcome("EOF", << >>, "io.EOF")

\* the part of Next after a record was received: dest[0] is the record when
\* rs.fields is empty, dest[i] the decoded field rs.fields[i] otherwise
NextScan(fields, r) ==
    IF Len(fields) = 0 THEN NextOutcome("rec", << r >>, "nil")
    ELSE IF \E j \in 1..Len(fields) : ~HasField(r, fields[j])
         THEN NextOutcome("err", << >>, "field not found")
    ELSE NextOutcome("rec",
            [j \in 1..Len(fields) |->
                Value(GetField(r, fields[j]).Type, GetField(r, fields[j]).Data)],
            "nil")

\* Columns answering "record" whatever the statement
ColumnsRecordOnly(s) == << "record" >>

\* recordStream.Columns
Columns(s) == IF Len(s.fields) > 0 THEN s.fields ELSE << "record" >>

\* an InsertStmt.Run on the connection before the query, its Result dropped
Populate ==
    /\ last = NoLast /\ ~rs.open
    /\ nextID <= MaxRecords
    /\ \E i \in StreamInserts :
         /\ tbl' = InsertStmtRun(i, tbl, nextID, schemaful).t
         /\ nextID' = IF tbl' # tbl THEN nextID + 1 ELSE nextID
    /\ UNCHANGED <<schemaful, last, driverVars, parserVars, sorter, exec>>

\* stmt.QueryContext: run the statement; on success wrap the Result in a
\* recordStream and start the iterate goroutine
QueryContext ==
    /\ last = NoLast /\ ~rs.open
    /\ \E p \in StreamStmts : \E orders \in OrdersOf(p, tbl) :
         /\ last' = Ran(p.op, p.stmt, tbl, StatementRun(p, tbl, schemaful, orders))
         /\ tbl' = last'.out.t
         /\ IF last'.out.err # "nil"
            THEN UNCHANGED driverVars
            ELSE /\ \E f \in -1..Len(last'.out.res) :
                      rs' = newRecordStream(last'.out.res, f, StreamFields(p))
                 /\ iter' = [NoIterate EXCEPT !.pc = "start"]
                 /\ cons' = NoCalls
    /\ UNCHANGED <<schemaful, nextID, parserVars, sorter, exec>>

\* Next, first statement: rs.c <- rec{} (the send blocks until iterate
\* receives)
NextCall ==
    /\ rs.open /\ cons.pc = "idle"
    /\ cons.nNext < MaxNext
    /\ cons' = [cons EXCEPT !.pc = "send", !.nNext = @ + 1]
    /\ UNCHANGED <<schemaful, tbl, nextID, last, rs, iter, parserVars, sorter, exec>>

\* Next blocked in rs.c <- rec{} on the closed channel: the send panics
NextSendClosed ==
    /\ cons.pc = "send" /\ rs.closed
    /\ cons' = [cons EXCEPT !.pc = "panic"]
    /\ UNCHANGED <<schemaful, tbl, nextID, last, rs, iter, parserVars, sorter, exec>>

\* Next, rec, ok := <-rs.c on the closed channel: io.EOF
NextRecvClosed ==
    /\ cons.pc = "recv" /\ rs.closed
    /\ cons' = [cons EXCEPT !.pc = "idle", !.out = Append(@, EOF)]
    /\ UNCHANGED <<schemaful, tbl, nextID, last, rs, iter, parserVars, sorter, exec>>

\* Close closing the channel itself: a second call panics
CloseClosesChannel ==
    /\ rs.open /\ cons.pc # "panic"
    /\ cons.nClose < MaxClose
    /\ rs' = [rs EXCEPT !.cancelled = TRUE, !.closed = TRUE]
    /\ cons' = [cons EXCEPT !.nClose = @ + 1,
                            !.closeRet = IF rs.closed THEN "panic" ELSE "nil",
                            !.pc = IF rs.closed THEN "panic" ELSE @,
                            !.closedAt = IF cons.nClose = 0 THEN iter.pc ELSE @]
    /\ UNCHANGED <<schemaful, tbl, nextID, last, iter, parserVars, sorter, exec>>

\* recordStream.Close: rs.cancelFn(), return nil; any goroutine may call
\* it; closedAt remembers where iterate was at the first call
Close ==
    /\ rs.open /\ cons.pc # "panic"
    /\ cons.nClose < MaxClose
    /\ rs' = [rs EXCEPT !.cancelled = TRUE]
    /\ cons' = [cons EXCEPT !.nClose = @ + 1, !.closeRet = "nil",
                            !.closedAt = IF cons.nClose = 0 THEN iter.pc ELSE @]
    /\ UNCHANGED <<schemaful, tbl, nextID, last, iter, parserVars, sorter, exec>>

\* a call of recordStream.Columns
CallColumns ==
    /\ rs.open /\ cons.pc # "panic"
    /\ cons' = [cons EXCEPT !.cols = Columns(rs)]
    /\ UNCHANGED <<schemaful, tbl, nextID, last, rs, iter, parserVars, sorter, exec>>

\* iterate calling rs.res.Iterate without waiting for the first Next
IterateStartEager ==
    /\ iter.pc = "start" /\ ~rs.closed
    /\ iter' = [iter EXCEPT !.pc = "iterating", !.started = TRUE]
    /\ UNCHANGED <<schemaful, tbl, nextID, last, rs, cons, parserVars, sorter, exec>>

\* iterate, first select, case <-rs.c: the token of the first Next arrives
\* and rs.res.Iterate is called
IterateStart ==
    /\ iter.pc = "start" /\ cons.pc = "send" /\ ~rs.closed
    /\ iter' = [iter EXCEPT !.pc = "iterating", !.started = TRUE]
    /\ cons' = [cons EXCEPT !.pc = "recv"]
    /\ UNCHANGED <<schemaful, tbl, nextID, last, rs, parserVars, sorter, exec>>

\* iterate looking at ctx.Done() in its first select only
IterateCancelledAtStartOnly ==
    /\ rs.cancelled
    /\ iter.pc = "start"
    /\ iter' = [iter EXCEPT !.pc = "done"]
    /\ rs' = [rs EXCEPT !.closed = TRUE]
    /\ UNCHANGED <<schemaful, tbl, nextID, last, cons, parserVars, sorter, exec>>

\* the case <-ctx.Done() of the three selects: iterate returns (from the
\* callback with errStop, which Iterate hands back); the deferred
\* close(rs.c) runs
IterateCancelled ==
    /\ rs.cancelled
    /\ iter.pc \in {"start", "cbSend", "cbWait"}
    /\ iter' = [iter EXCEPT !.pc = "done",
                            !.err = IF iter.pc = "start" THEN "nil" ELSE errStop]
    /\ rs' = [rs EXCEPT !.closed = TRUE]
    /\ UNCHANGED <<schemaful, tbl, nextID, last, cons, parserVars, sorter, exec>>

\* rs.res.Iterate between two callbacks: it fails, hands the next record to
\* the callback, or returns nil at the end (then iterate returns and the
\* deferred close(rs.c) runs)
IterateTake ==
    /\ iter.pc = "iterating"
    /\ IF rs.failAt = iter.taken
       THEN /\ iter' = [iter EXCEPT !.pc = "errSend", !.err = "engine"]
            /\ rs' = rs
       ELSE IF iter.taken < Len(rs.records)
       THEN /\ iter' = [iter EXCEPT !.pc = "cbSend", !.taken = @ + 1]
            /\ rs' = rs
       ELSE /\ iter' = [iter EXCEPT !.pc = "done"]
            /\ rs' = [rs EXCEPT !.closed = TRUE]
    /\ UNCHANGED <<schemaful, tbl, nextID, last, cons, parserVars, sorter, exec>>

\* the callback sending the first record of the result every time
CallbackSendFirst ==
    /\ iter.pc = "cbSend" /\ cons.pc = "recv"
    /\ iter' = [iter EXCEPT !.pc = "cbWait"]
    /\ cons' = [cons EXCEPT !.pc = "idle",
                   !.out = Append(@, NextScan(rs.fields, rs.records[1]))]
    /\ UNCHANGED <<schemaful, tbl, nextID, last, rs, parserVars, sorter, exec>>

\* the callback, case rs.c <- rec{r: r}: the Next waiting in <-rs.c gets
\* the record and returns
CallbackSend ==
    /\ iter.pc = "cbSend" /\ cons.pc = "recv"
    /\ iter' = [iter EXCEPT !.pc = "cbWait"]
    /\ cons' = [cons EXCEPT !.pc = "idle",
                   !.out = Append(@, NextScan(rs.fields, rs.records[iter.taken]))]
    /\ UNCHANGED <<schemaful, tbl, nextID, last, rs, parserVars, sorter, exec>>

\* the callback, second select, case <-rs.c: the token of the following
\* Next arrives and the callback returns nil
CallbackResume ==
    /\ iter.pc = "cbWait" /\ cons.pc = "send"
    /\ iter' = [iter EXCEPT !.pc = "iterating"]
    /\ cons' = [cons EXCEPT !.pc = "recv"]
    /\ UNCHANGED <<schemaful, tbl, nextID, last, rs, parserVars, sorter, exec>>

\* iterate after Iterate failed: rs.c <- rec{err: err}, then return and the
\* deferred close(rs.c)
IterateSendErr ==
    /\ iter.pc = "errSend" /\ cons.pc = "recv"
    /\ iter' = [iter EXCEPT !.pc = "done"]
    /\ rs' = [rs EXCEPT !.closed = TRUE]
    /\ cons' = [cons EXCEPT !.pc = "idle",
                   !.out = Append(@, NextOutcome("err", << >>, iter.err))]
    /\ UNCHANGED <<schemaful, tbl, nextID, last, parserVars, sorter, exec>>

StreamNext ==
    \/ Populate \/ QueryContext
    \/ NextCall \/ NextSendClosed \/ NextRecvClosed \/ Close \/ CallColumns
    \/ IterateStart \/ IterateCancelled \/ IterateTake
    \/ CallbackSend \/ CallbackResume \/ IterateSendErr

StreamSpec == Init /\ [][StreamNext]_vars

\* the Go scheduler runs a goroutine that can take a step: iterate, and a
\* Next blocked on the channel
StreamFairness ==
    /\ WF_vars(IterateStart) /\ WF_vars(IterateCancelled) /\ WF_vars(IterateTake)
    /\ WF_vars(CallbackSend) /\ WF_vars(CallbackResume) /\ WF_vars(IterateSendErr)
    /\ WF_vars(NextSendClosed) /\ WF_vars(NextRecvClosed)

StreamLive == StreamSpec /\ StreamFairness

StreamTypeOK ==
    /\ iter.pc \in {"none", "start", "iterating", "cbSend", "cbWait", "errSend", "done"}
    /\ cons.pc \in {"idle", "send", "recv", "panic"}
    /\ iter.taken \in 0..Len(rs.records)
    /\ cons.nNext \in 0..MaxNext
    /\ cons.nClose \in 0..MaxClose
    /\ Len(cons.out) <= cons.nNext

----------------------------------------------------------------------------
(* The statements given to the parser *)

\* the j-th field name of a field list
FieldName(j) == "f" \o ToString(j)

\* f1, f2, ..., fn
RECURSIVE IdentListTokens(_, _)
IdentListTokens(j, n) ==
    IF j > n THEN << >>
    ELSE IF j = n THEN << Ident(FieldName(j)) >>
    ELSE << Ident(FieldName(j)), Kw("COMMA") >> \o IdentListTokens(j + 1, n)

\* (f1, f2, ..., fn)
FieldListTokens(n) == << Kw("LPAREN") >> \o IdentListTokens(1, n) \o << Kw("RPAREN") >>

IfNotExistsTokens ==
    { << >>, << Kw("IF"), Kw("NOT"), Kw("EXISTS") >>, << Kw("IF"), Kw("EXISTS") >> }

\* what follows CREATE in a CREATE [UNIQUE] INDEX statement, well formed or
\* not
CreateIndexInputs ==
    { h \o i \o n \o o \o t \o f \o e :
        h \in { << Kw("INDEX") >>, << Kw("UNIQUE"), Kw("INDEX") >>, << Kw("UNIQUE") >> },
        i \in IfNotExistsTokens,
        n \in { << Ident("idx") >>, << >> },
        o \in { << Kw("ON") >>, << >> },
        t \in { << Ident("t") >> },
        f \in { FieldListTokens(k) : k \in 0..MaxFields }
              \cup { << >>, << Kw("LPAREN") >>,
                     << Kw("LPAREN"), Ident("f1") >>,
                     << Kw("LPAREN"), Ident("f1"), Kw("COMMA"), Kw("RPAREN") >>,
                     << Kw("LPAREN"), Ident("f1"), Ident("f2"), Kw("RPAREN") >> },
        e \in { << >>, << Ident("x") >> } }

\* what follows CREATE in a CREATE TABLE statement, well formed or not
CreateTableInputs ==
    { << Kw("TABLE") >> \o i \o n \o o :
        i \in IfNotExistsTokens,
        n \in { << Ident("t") >>, << >> },
        o \in { << >>,
                << Kw("LPAREN"), Ident("k"), Kw("TYPEINTEGER"), Kw("PRIMARY"), Kw("KEY"),
                   Kw("RPAREN") >>,
                << Kw("LPAREN"), Ident("k"), Kw("PRIMARY"), Kw("KEY"), Kw("RPAREN") >>,
                << Kw("LPAREN"), Ident("k"), Kw("TYPETEXT"), Kw("KEY"), Kw("RPAREN") >>,
                << Kw("LPAREN"), Ident("k"), Kw("TYPETEXT"), Kw("PRIMARY"), Kw("RPAREN") >>,
                << Kw("LPAREN"), Ident("k"), Kw("TYPETEXT"), Kw("PRIMARY"), Kw("KEY") >> } }

CreateInputs ==
    CreateIndexInputs \cup CreateTableInputs \cup { << >>, << Ident("x") >> }

IntLit(n) == Tok("INTEGER", n)

\* what follows VALUES or RECORDS in an INSERT statement, well formed or
\* not
ValuesTokens ==
    { << Kw("LPAREN"), IntLit("1"), Kw("RPAREN") >>,
      << Kw("LPAREN"), IntLit("1"), Kw("COMMA"), Kw("POSITIONALPARAM"), Kw("RPAREN") >>,
      << Kw("LPAREN"), IntLit("1"), Kw("ADD"), Tok("NAMEDPARAM", "$x"), Kw("RPAREN") >>,
      << Kw("LPAREN"), IntLit("1"), Kw("RPAREN"), Kw("COMMA"),
         Kw("LPAREN"), IntLit("2"), Kw("RPAREN") >>,
      << IntLit("1") >>,
      << Kw("LPAREN"), IntLit("1") >>,
      << Kw("LPAREN"), IntLit("1"), IntLit("2"), Kw("RPAREN") >>,
      << Kw("LPAREN"), IntLit("1"), Kw("CONCAT"), Kw("RPAREN") >>,
      << Kw("LPAREN"), Kw("RPAREN") >>,
      << Kw("LPAREN"), IntLit("1"), Kw("RPAREN"), Kw("COMMA") >>,
      << >> }

RecordsTokens ==
    { << Kw("POSITIONALPARAM") >>,
      << Tok("NAMEDPARAM", "$x"), Kw("COMMA"), Kw("POSITIONALPARAM") >>,
      << Tok("NAMEDPARAM", "$") >>,
      << Kw("LPAREN"), Ident("a"), Kw("COLON"), IntLit("1"), Kw("RPAREN") >>,
      << Kw("LPAREN"), Ident("a"), Kw("COLON"), IntLit("1"), Kw("COMMA"),
         Ident("b"), Kw("COLON"), Ident("a"), Kw("MUL"), IntLit("2"), Kw("RPAREN") >>,
      << Kw("POSITIONALPARAM"), Kw("COMMA"),
         Kw("LPAREN"), Ident("a"), Kw("COLON"), IntLit("1"), Kw("RPAREN") >>,
      << Kw("POSITIONALPARAM"), Kw("COMMA"), Ident("x") >>,
      << Ident("x") >>,
      << Kw("LPAREN"), Ident("a"), IntLit("1"), Kw("RPAREN") >>,
      << Kw("LPAREN"), Ident("a"), Kw("COLON"), Kw("RPAREN") >>,
      << Kw("LPAREN"), Ident("a"), Kw("COLON"), IntLit("1") >>,
      << Kw("LPAREN"), Ident("a"), Kw("COLON"), IntLit("1"), Kw("COMMA"), Kw("RPAREN") >>,
      << >> }

\* what follows INSERT in an INSERT statement, well formed or not
InsertInputs ==
    { h \o f \o c \o e :
        h \in { << Kw("INTO"), Ident("t") >>, << Kw("INTO") >>, << Ident("t") >> },
        f \in { FieldListTokens(k) : k \in 0..MaxFields }
              \cup { << >>, << Kw("LPAREN"), Ident("f1") >> },
        c \in { << Kw("VALUES") >> \o v : v \in ValuesTokens }
              \cup { << Kw(RecordsToken) >> \o r : r \in RecordsTokens }
              \cup { << >>, << Ident("x") >>, << Kw("SELECT") >> },
        e \in { << >>, << Kw("SEMICOLON") >> } }

\* no method of the token was called yet
TokenInit ==
    /\ schemaful = FALSE
    /\ tbl = << >>
    /\ nextID = 1
    /\ last = NoLast
    /\ rs = NoStream
    /\ iter = NoIterate
    /\ cons = NoCalls
    /\ input = << >>
    /\ parsed = NoParse
    /\ lex \in { [NoToken EXCEPT !.tok = t] : t \in Tokens }
    /\ sorter = NoSort
    /\ exec = NoExec

\* a call of Token.Precedence
CallPrecedence ==
    /\ "Precedence" \notin lex.called
    /\ lex' = [lex EXCEPT !.called = @ \cup { "Precedence" }, !.prec = Precedence(lex.tok)]
    /\ UNCHANGED <<schemaful, tbl, nextID, last, driverVars, input, parsed, sorter, exec>>

\* a call of Token.String
CallString ==
    /\ "String" \notin lex.called
    /\ lex' = [lex EXCEPT !.called = @ \cup { "String" }, !.str = TokenString(lex.tok)]
    /\ UNCHANGED <<schemaful, tbl, nextID, last, driverVars, input, parsed, sorter, exec>>

\* a call of Token.IsOperator
CallIsOperator ==
    /\ "IsOperator" \notin lex.called
    /\ lex' = [lex EXCEPT !.called = @ \cup { "IsOperator" }, !.isOp = IsOperator(lex.tok)]
    /\ UNCHANGED <<schemaful, tbl, nextID, last, driverVars, input, parsed, sorter, exec>>

TokenNext == CallPrecedence \/ CallString \/ CallIsOperator

TokenSpec == TokenInit /\ [][TokenNext]_vars

----------------------------------------------------------------------------
(* table scan | TempTreeSort *)

\* the documents of the scanned table: a is missing, Null, a boolean or an
\* integer; b tells documents with the same a apart
SortDocs ==
    { << >>, << Field("a", NullValue) >>,
      << Field("a", BoolValue(1)) >>,
      << Field("a", IntValue(0)) >>, << Field("a", IntValue(1)) >>,
      << Field("a", IntValue(-1)) >>,
      << Field("a", IntValue(0)), Field("b", IntValue(1)) >>,
      << Field("b", IntValue(1)) >> }

RECURSIVE SeqsUpTo(_, _)
SeqsUpTo(S, n) ==
    IF n = 0 THEN { << >> }
    ELSE LET shorter == SeqsUpTo(S, n - 1)
         IN  shorter \cup { Append(q, x) : q \in shorter, x \in S }

\* stream.New(table.Scan(t)).Pipe(TempTreeSort(a)), or TempTreeSortReverse
SortInit ==
    /\ schemaful = FALSE
    /\ tbl = << >>
    /\ nextID = 1
    /\ last = NoLast
    /\ rs = NoStream
    /\ iter = NoIterate
    /\ cons = NoCalls
    /\ input = << >>
    /\ parsed = NoParse
    /\ lex = NoToken
    /\ \E docs \in SeqsUpTo(SortDocs, MaxDocs) : \E reverse \in BOOLEAN :
         sorter = [NoSort EXCEPT !.pc = "scan", !.docs = docs, !.e = Ref("a"),
                                 !.reverse = reverse]
    /\ exec = NoExec

\* the scan hands the next document to the operator, which puts it in the
\* temporary tree
SortPut ==
    /\ sorter.pc = "scan" /\ sorter.n < Len(sorter.docs)
    /\ sorter' = [sorter EXCEPT
            !.n = @ + 1,
            !.tree = TreePut(@, SortKey(sorter.e, sorter.docs[sorter.n + 1], sorter.n + 1),
                             sorter.docs[sorter.n + 1])]
    /\ UNCHANGED <<schemaful, tbl, nextID, last, driverVars, input, parsed, lex, exec>>

\* the scan is at its end: the operator starts to iterate over the tree
SortScanEnd ==
    /\ sorter.pc = "scan" /\ sorter.n = Len(sorter.docs)
    /\ sorter' = [sorter EXCEPT !.pc = "emit"]
    /\ UNCHANGED <<schemaful, tbl, nextID, last, driverVars, input, parsed, lex, exec>>

\* the operator emits the document of the next entry of the tree
SortEmit ==
    /\ sorter.pc = "emit" /\ Len(sorter.out) < Len(sorter.tree)
    /\ sorter' = [sorter EXCEPT
            !.out = Append(@, TreeAt(sorter.tree, Len(sorter.out), sorter.reverse).doc)]
    /\ UNCHANGED <<schemaful, tbl, nextID, last, driverVars, input, parsed, lex, exec>>

\* the tree is at its end: the stream terminates and the tree is dropped
SortEnd ==
    /\ sorter.pc = "emit" /\ Len(sorter.out) = Len(sorter.tree)
    /\ sorter' = [sorter EXCEPT !.pc = "done", !.tree = << >>]
    /\ UNCHANGED <<schemaful, tbl, nextID, last, driverVars, input, parsed, lex, exec>>

SortNext == SortPut \/ SortScanEnd \/ SortEmit \/ SortEnd

SortSpec == SortInit /\ [][SortNext]_vars

----------------------------------------------------------------------------
(* The calls of stmt.ExecContext *)

\* the statements prepared for ExecContext: a DELETE, an UPDATE, an UPDATE
\* whose expression fails and a SELECT whose WHERE fails
ExecStmts ==
    { Prepared("delete", DeleteStmt(TRUE, Eq("b", Bool1))),
      Prepared("delete", DeleteStmt(TRUE, NoExpr)),
      Prepared("update", UpdateStmt(TRUE, << SetCall("a", Lit(IntValue(0))) >>, NoExpr)),
      Prepared("update", UpdateStmt(TRUE, << SetCall("b", Fail) >>, NoExpr)),
      Prepared("select", SelectStmt(TRUE, << "a" >>, Fail, NoExpr, NoExpr)) }

\* the errors of a context that is done
CtxErrors == { "context canceled", "context deadline exceeded" }

\* the context is cancelled or passes its deadline, whatever ExecContext is
\* doing
CtxDone ==
    /\ exec.ctx = "nil"
    /\ \E e \in CtxErrors : exec' = [exec EXCEPT !.ctx = e]
    /\ UNCHANGED <<schemaful, tbl, nextID, last, driverVars, parserVars, sorter>>

\* ExecContext, the select at its entry: case <-ctx.Done() returns
\* nil, ctx.Err(); default goes on to s.stmt.Run
ExecContextEntry ==
    /\ exec.pc = "idle" /\ last = NoLast
    /\ \E p \in ExecStmts : \E orders \in OrdersOf(p, tbl) :
         exec' = IF exec.ctx # "nil"
                 THEN [exec EXCEPT !.pc = "returned", !.entry = exec.ctx,
                                   !.p = p, !.pre = tbl, !.orders = orders,
                                   !.res = "nil", !.err = exec.ctx]
                 ELSE [exec EXCEPT !.pc = "run", !.entry = "nil",
                                   !.p = p, !.pre = tbl, !.orders = orders]
    /\ UNCHANGED <<schemaful, tbl, nextID, last, driverVars, parserVars, sorter>>

\* ExecContext looking at the context again before it runs the statement
ExecContextRunChecksCtx ==
    /\ exec.pc = "run"
    /\ IF exec.ctx # "nil"
       THEN /\ exec' = [exec EXCEPT !.pc = "returned", !.res = "nil", !.err = exec.ctx]
            /\ UNCHANGED <<tbl, last>>
       ELSE /\ last' = Ran(exec.p.op, exec.p.stmt, tbl,
                           StatementRun(exec.p, tbl, schemaful, exec.orders))
            /\ tbl' = last'.out.t
            /\ exec' = [exec EXCEPT !.pc = "returned", !.res = "Result",
                                    !.err = last'.out.err]
    /\ UNCHANGED <<schemaful, nextID, driverVars, parserVars, sorter>>

\* ExecContext, res := s.stmt.Run(s.txo, args); return res, res.Err()
ExecContextRun ==
    /\ exec.pc = "run"
    /\ last' = Ran(exec.p.op, exec.p.stmt, tbl,
                   StatementRun(exec.p, tbl, schemaful, exec.orders))
    /\ tbl' = last'.out.t
    /\ exec' = [exec EXCEPT !.pc = "returned", !.res = "Result", !.err = last'.out.err]
    /\ UNCHANGED <<schemaful, nextID, driverVars, parserVars, sorter>>

\* the caller drops the result; its next call has a context of its own
ExecForget ==
    /\ exec.pc = "returned"
    /\ exec' = NoExec
    /\ last' = NoLast
    /\ UNCHANGED <<schemaful, tbl, nextID, driverVars, parserVars, sorter>>

\* the statements run on the connection between two calls: the connection
\* is used by one goroutine at a time
ExecPopulate == exec.pc = "idle" /\ Populate

ExecNext ==
    ExecPopulate \/ CtxDone \/ ExecContextEntry \/ ExecContextRun \/ ExecForget

ExecSpec == Init /\ [][ExecNext]_vars

ParseInit ==
    /\ schemaful = FALSE
    /\ tbl = << >>
    /\ nextID = 1
    /\ last = NoLast
    /\ rs = NoStream
    /\ iter = NoIterate
    /\ cons = NoCalls
    /\ input \in CreateInputs \cup InsertInputs
    /\ parsed = NoParse
    /\ lex = NoToken
    /\ sorter = NoSort
    /\ exec = NoExec

\* the parser has read CREATE and calls parseCreateStatement
ParseCreate ==
    /\ ~parsed.called
    /\ input \in CreateInputs
    /\ parsed' = [called |-> TRUE] @@ parseCreateStatement(NewParser(input))
    /\ UNCHANGED <<schemaful, tbl, nextID, last, driverVars, input, lex, sorter, exec>>

\* the parser has read INSERT and calls parseInsertStatement
ParseInsert ==
    /\ ~parsed.called
    /\ input \in InsertInputs
    /\ parsed' = [called |-> TRUE] @@ parseInsertStatement(NewParser(input))
    /\ UNCHANGED <<schemaful, tbl, nextID, last, driverVars, input, lex, sorter, exec>>

ParseNext == ParseCreate \/ ParseInsert

ParseSpec == ParseInit /\ [][ParseNext]_vars

----------------------------------------------------------------------------
(* Properties *)

\* the rows of t for which e evaluates, without error, to a truthy value
Satisfying(t, e) ==
    SelectSeq(t, LAMBDA row : Eval(e, row.r).err = "nil" /\ Truthy(Eval(e, row.r).v))

\* the rows of t for which e evaluates to false or Null
NotSatisfying(t, e) ==
    SelectSeq(t, LAMBDA row : Eval(e, row.r).err = "nil" /\ ~Truthy(Eval(e, row.r).v))

NoEvalError(t, e) == \A j \in 1..Len(t) : Eval(e, t[j].r).err = "nil"

IDs(rows) == [j \in 1..Len(rows) |-> rows[j].id]

\* the k of Offset(k), 0 when Offset was not called
OffsetOf(q) == IF q.offset = NoExpr THEN 0 ELSE q.offset.v.Data

\* C1: a SELECT on the table-scan path with a WHERE predicate that N rows
\* satisfy returns the matching rows at positions k .. k+m-1 of scan order,
\* in that order: min(m, max(0, N-k)) records with Limit(m), max(0, N-k)
\* records without Limit, k = 0 without Offset
C1_OffsetLimit ==
    (last.op = "select" /\ last.out.source = "scan" /\ last.stmt.where # NoExpr) =>
        LET q == last.stmt
            M == Satisfying(last.pre, q.where)
            N == Len(M)
            k == OffsetOf(q)
        IN  /\ NoEvalError(last.pre, q.where) => last.out.err = "nil"
            /\ last.out.err = "nil" =>
                 /\ Len(last.out.res) = Len(last.out.src)
                 /\ IF q.limit = NoExpr
                    THEN /\ last.out.src = SubSeq(M, k + 1, N)
                         /\ Len(last.out.res) = Max(0, N - k)
                    ELSE /\ last.out.src = SubSeq(M, k + 1, Min(N, k + q.limit.v.Data))
                         /\ Len(last.out.res) = Min(q.limit.v.Data, Max(0, N - k))

\* a SELECT with Offset(1) and Limit(1) over two matching rows returned the
\* second one
C1_Witness ==
    /\ last.op = "select" /\ last.out.source = "scan" /\ last.out.err = "nil"
    /\ last.stmt.offset = Lit(IntValue(1)) /\ last.stmt.limit = Lit(IntValue(1))
    /\ Len(Satisfying(last.pre, last.stmt.where)) = 2
    /\ IDs(last.out.src) = << last.pre[2].id >>

\* the schema field (its position in Schema) the idx-th value of the INSERT
\* i is paired with, 0 when it is paired with none
PairedField(i, idx) ==
    IF i.fieldNames = << >>
    THEN IF Len(i.values) = Len(Schema) THEN idx ELSE 0
    ELSE IF idx <= Len(i.fieldNames) THEN SchemaIndex(i.fieldNames[idx], 1) ELSE 0

ValuesEvaluate(i) == \A idx \in 1..Len(i.values) : Eval(i.values[idx], << >>).err = "nil"

TypeMismatch(i) ==
    \E idx \in 1..Len(i.values) :
        /\ PairedField(i, idx) # 0
        /\ Eval(i.values[idx], << >>).v.Type # Schema[PairedField(i, idx)].Type

\* C2: an INSERT into a schemaful table, with or without a field list,
\* returns a type error and inserts nothing when a value's type differs
\* from the type of the schema field it is paired with
C2_InsertTypeError ==
    (/\ last.op = "insert" /\ schemaful /\ last.stmt.table
     /\ ValuesEvaluate(last.stmt) /\ TypeMismatch(last.stmt)) =>
        /\ last.out.err = "type"
        /\ last.out.t = last.pre

\* the record an INSERT stored
InsertedRecord == last.out.t[Len(last.out.t)].r

\* C3: an INSERT with a field list returns an error and inserts nothing when
\* the number of values differs from the number of field names, on
\* schemaless and schemaful tables; with equal numbers the i-th value is
\* stored under the i-th field name
C3_InsertCardinality ==
    (last.op = "insert" /\ last.stmt.table /\ last.stmt.fieldNames # << >>) =>
        LET i == last.stmt
        IN  /\ Len(i.values) # Len(i.fieldNames) =>
                 /\ last.out.err \notin {"nil", "panic"}
                 /\ last.out.t = last.pre
            /\ (Len(i.values) = Len(i.fieldNames) /\ last.out.err = "nil") =>
                 \A idx \in 1..Len(i.fieldNames) :
                     /\ HasField(InsertedRecord, i.fieldNames[idx])
                     /\ GetField(InsertedRecord, i.fieldNames[idx])
                          = Field(i.fieldNames[idx], Eval(i.values[idx], << >>).v)

\* the row of table t with record id
RowOf(t, id) == t[RowIndex(t, id, 1)]

\* C4: an UPDATE of a schemaful table returns an error, and does not store
\* the value, when a SET expression evaluates to a value whose type differs
\* from the declared type of the assigned field
C4_UpdateTypeError ==
    (last.op = "update" /\ schemaful) =>
        \A k \in 1..Len(last.out.src) : \A n \in PairKeys(last.stmt.sets) :
            LET row == last.out.src[k]
                sv == Eval(PairExpr(last.stmt.sets, n), row.r)
            IN  (/\ SchemaIndex(n, 1) # 0 /\ HasField(row.r, n) /\ sv.err = "nil"
                 /\ sv.v.Type # Schema[SchemaIndex(n, 1)].Type) =>
                    /\ last.out.err # "nil"
                    /\ GetField(RowOf(last.out.t, row.id).r, n) = GetField(row.r, n)

\* the field names of the Set calls, in the order of their first call
RECURSIVE DeclaredOrder(_, _, _)
DeclaredOrder(sets, j, acc) ==
    IF j > Len(sets) THEN acc
    ELSE DeclaredOrder(sets, j + 1,
            IF \E x \in 1..Len(acc) : acc[x] = sets[j].name
            THEN acc ELSE Append(acc, sets[j].name))

IsPrefix(p, q) == Len(p) <= Len(q) /\ SubSeq(q, 1, Len(p)) = p

\* C5: for each matching record an UPDATE applies its SET assignments in
\* the order in which they were declared
C5_DeclaredOrder ==
    last.op = "update" =>
        \A k \in 1..Len(last.out.applied) :
            IsPrefix(last.out.applied[k], DeclaredOrder(last.stmt.sets, 1, << >>))

\* C6: a DELETE or UPDATE built without Where does not fail and works on
\* every record of the table
C6_WhereOptional ==
    (/\ last.op \in {"delete", "update"} /\ last.stmt.table
     /\ last.stmt.where = NoExpr
     /\ last.op = "update" => last.stmt.sets # << >>) =>
        /\ last.out.err # "panic"
        /\ last.op = "delete" => last.out.err = "nil" /\ last.out.t = << >>
        /\ (last.op = "update" /\ last.out.err = "nil") => last.out.src = last.pre

\* C7: a DELETE with a WHERE expression that returns without error has
\* removed every record for which the expression is truthy and has left
\* every record for which it is false or Null in the table, unchanged
C7_DeleteExactly ==
    (last.op = "delete" /\ last.stmt.where # NoExpr /\ last.out.err = "nil") =>
        /\ last.out.t = NotSatisfying(last.pre, last.stmt.where)
        /\ IDs(last.out.src) = IDs(Satisfying(last.pre, last.stmt.where))
        /\ Len(last.out.t) + Len(last.out.src) = Len(last.pre)

\* a DELETE removed a matching record and kept one for which the WHERE
\* expression is Null (the record has no field b)
C7_Witness ==
    /\ last.op = "delete" /\ last.out.err = "nil"
    /\ last.stmt.where = Eq("b", Bool1)
    /\ Len(last.pre) = 2 /\ Len(last.out.t) = 1
    /\ ~HasField(last.out.t[1].r, "b")

\* whether the Run of the last statement got as far as its WHERE expression
ReachedWhere ==
    /\ last.op \in {"select", "delete", "update"}
    /\ last.stmt.table
    /\ last.op = "update" => last.stmt.sets # << >>
    /\ last.op = "select" =>
         EvalArg(last.stmt.offset).err = "nil" /\ EvalArg(last.stmt.limit).err = "nil"

\* C8: with a WHERE expression that implements IndexMatcher, SELECT, DELETE
\* and UPDATE take the records from the index result without calling Eval
\* when MatchIndex matches; fall back to the table scan filtered by Eval,
\* without failing, when it reports no match or engine.ErrIndexNotFound;
\* return any other MatchIndex error without reading or changing a record
C8_IndexMatcher ==
    (ReachedWhere /\ IsIndexMatcher(last.stmt.where)) =>
        LET e == last.stmt.where
            o == last.out
        IN  /\ (e.ok /\ e.ierr = "nil") =>
                 /\ o.source = "index" /\ o.evals = 0
                 /\ \A k \in 1..Len(o.src) :
                      \E x \in 1..Len(MatchIndex(e, last.pre).tree) :
                          o.src[k].id = MatchIndex(e, last.pre).tree[x]
                 /\ last.op # "select" => IDs(o.src) = MatchIndex(e, last.pre).tree
            /\ ((~e.ok /\ e.ierr = "nil") \/ e.ierr = ErrIndexNotFound) =>
                 /\ o.source = "scan"
                 /\ o.err \notin {ErrIndexNotFound, "other", "panic"}
                 /\ last.op # "update" => o.err = "nil"
                 /\ Len(last.pre) > 0 => o.evals > 0
                 /\ \A k \in 1..Len(o.src) : Truthy(Eval(e, o.src[k].r).v)
                 /\ last.op # "select" => o.src = Satisfying(last.pre, e)
            /\ e.ierr \notin {"nil", ErrIndexNotFound} =>
                 /\ o.err = e.ierr /\ o.evals = 0
                 /\ o.src = << >> /\ o.res = << >> /\ o.t = last.pre

\* a DELETE whose MatchIndex answered engine.ErrIndexNotFound fell back to
\* the table scan and deleted the matching record
C8_Witness ==
    /\ last.op = "delete"
    /\ last.stmt.where = IEq("b", Bool1, FALSE, ErrIndexNotFound)
    /\ last.out.source = "scan" /\ last.out.evals = 2
    /\ Len(last.out.src) = 1 /\ Len(last.out.t) = 1

\* C9: a SELECT without field selectors (the wildcard) returns every
\* selected record verbatim
C9_Wildcard ==
    (last.op = "select" /\ last.out.err = "nil" /\ last.stmt.sel = << >>) =>
        /\ Len(last.out.res) = Len(last.out.src)
        /\ \A k \in 1..Len(last.out.src) : last.out.res[k] = last.out.src[k].r

----------------------------------------------------------------------------
(* Properties of the sql driver *)

Last(q) == q[Len(q)]

\* C11: errStop never leaves a statement: the error of the Result of a
\* SELECT, the error of a DELETE and of an UPDATE and the error of a Next
\* call are never errStop; a SELECT whose scan reaches its LIMIT returns
\* without error
C11_StopStaysInside ==
    /\ last.op \in {"select", "delete", "update"} => last.out.err # errStop
    /\ \A j \in 1..Len(cons.out) : cons.out[j].err # errStop
    /\ (/\ last.op = "select" /\ ReachedWhere /\ last.stmt.where # NoExpr
        /\ last.stmt.limit # NoExpr /\ NoEvalError(last.pre, last.stmt.where)) =>
            last.out.err = "nil"

\* a SELECT with Limit(1) over two matching records stopped its scan at the
\* second; the stream returned one record and then io.EOF
C11_Witness ==
    /\ last.op = "select" /\ last.out.source = "scan"
    /\ last.stmt.limit = Lit(IntValue(1)) /\ last.stmt.offset = NoExpr
    /\ Len(Satisfying(last.pre, last.stmt.where)) = 2
    /\ last.out.err = "nil" /\ Len(last.out.res) = 1
    /\ Len(cons.out) = 2 /\ cons.out[1].k = "rec" /\ cons.out[2] = EOF

\* what Next puts in dest for the record r
ExpectedDest(fields, r) ==
    IF fields = << >> THEN << r >>
    ELSE [j \in 1..Len(fields) |->
            LET f == CHOOSE x \in 1..Len(r) :
                        /\ r[x].Name = fields[j]
                        /\ \A y \in 1..(x - 1) : r[y].Name # fields[j]
            IN  [Type |-> r[f].Type, Data |-> r[f].Data]]

\* the outcomes of Result.Iterate: one record after the other, then the end
\* or the error
IterateOutcomes(s) ==
    LET n == IF s.failAt >= 0 THEN s.failAt ELSE Len(s.records)
    IN  [j \in 1..(n + 1) |->
            IF j <= n THEN [k |-> "rec", dest |-> ExpectedDest(s.fields, s.records[j]),
                            err |-> "nil"]
            ELSE IF s.failAt >= 0 THEN [k |-> "err", dest |-> << >>, err |-> "engine"]
            ELSE [k |-> "EOF", dest |-> << >>, err |-> "io.EOF"]]

\* C12: while Close is not called, the outcomes of the successive Next calls
\* of the one consumer are the outcomes of Result.Iterate: every record
\* once, in iteration order, then io.EOF when the iteration ended normally,
\* the iteration's error when it failed
C12_NextFollowsIterate ==
    (rs.open /\ cons.nClose = 0) =>
        LET exp == IterateOutcomes(rs)
            m == Min(Len(cons.out), Len(exp))
        IN  /\ SubSeq(cons.out, 1, m) = SubSeq(exp, 1, m)
            /\ cons.pc = "panic" => Len(cons.out) >= Len(exp)
            /\ cons.pc = "idle" => Len(cons.out) = cons.nNext

\* three Next calls returned the two records of the result and io.EOF
C12_Witness ==
    /\ rs.open /\ cons.nClose = 0 /\ rs.failAt = -1
    /\ Len(rs.records) = 2 /\ rs.records[1] # rs.records[2]
    /\ cons.out = IterateOutcomes(rs)

\* C13: the stream is pull-driven: Result.Iterate is not called before the
\* first Next call, and iterate has never taken more records from the
\* Result than Next was called
C13_PullDriven ==
    /\ iter.started => cons.nNext >= 1
    /\ iter.taken <= cons.nNext

\* iterate has taken the second record for the second Next call
C13_Witness ==
    /\ iter.started /\ iter.taken = 2 /\ cons.nNext = 2 /\ iter.pc = "cbSend"

\* C14: once Close was called, iterate eventually returns and closes its
\* channel, wherever it was, also when Result.Iterate reports an error
C14_CloseStopsIterate ==
    [](rs.cancelled => <>(iter.pc = "done" /\ rs.closed))

\* Close was called while the callback waited for the next Next; the
\* iteration then failed, and iterate sent the error, returned and closed
\* the channel
C14_Witness ==
    /\ rs.cancelled /\ cons.closedAt = "cbWait"
    /\ iter.pc = "done" /\ iter.err = "engine" /\ rs.closed

\* iterate returned because the context was cancelled
CancelledExit ==
    /\ iter.pc = "done" /\ rs.cancelled
    /\ iter.err = errStop \/ ~iter.started

\* C15: a stream cancelled before it is exhausted ends its iteration
\* without an iteration error, and a Next call that meets the cancellation
\* returns a cancellation error: not a record, not io.EOF
C15_CancelIsError ==
    CancelledExit =>
        /\ \A j \in 1..Len(cons.out) : cons.out[j].err # errStop
        /\ cons.pc # "panic"
        /\ \A j \in 1..Len(cons.out) : cons.out[j].k # "EOF"

\* C16: every Close call returns nil, does not panic, and a Close of a
\* cancelled stream changes nothing of the stream nor of iterate
C16_CloseIdempotent ==
    [][cons'.nClose # cons.nClose =>
          /\ cons'.closeRet = "nil"
          /\ cons'.pc = cons.pc
          /\ rs'.cancelled
          /\ iter' = iter
          /\ rs.cancelled => rs' = rs]_vars

\* Close was called twice on a stream
C16_Witness ==
    /\ cons.nClose = 2 /\ cons.closeRet = "nil" /\ rs.cancelled
    /\ cons.pc # "panic"

\* C17: Columns answers the names of the field selectors, in selector
\* order, for a SELECT with field selectors, and the one name "record" for
\* a SELECT without and for any other statement, whenever it is called
C17_Columns ==
    cons.cols # << >> =>
        cons.cols = IF last.op = "select" /\ last.stmt.sel # << >>
                    THEN last.stmt.sel ELSE << "record" >>

\* Columns answered b, a for SELECT b, a after the stream was read to its
\* end
C17_Witness ==
    /\ cons.cols = << "b", "a" >> /\ last.stmt.sel = << "b", "a" >>
    /\ iter.pc = "done" /\ Len(cons.out) > 0 /\ Last(cons.out) = EOF

----------------------------------------------------------------------------
(* Properties of INSERT, continued *)

\* the values of the INSERT i evaluate to the types of the schema fields,
\* in schema order
ValuesFitSchema(i) ==
    /\ Len(i.values) = Len(Schema)
    /\ \A k \in 1..Len(Schema) :
         /\ Eval(i.values[k], << >>).err = "nil"
         /\ Eval(i.values[k], << >>).v.Type = Schema[k].Type

\* C18: an INSERT without a field list succeeds only on a schemaful table
\* and with as many values as the schema has fields, and then stores the
\* i-th value in the i-th schema field; on a schemaless table, or with
\* another number of values, it returns an error and inserts nothing
C18_InsertWithoutFields ==
    (last.op = "insert" /\ last.stmt.table /\ last.stmt.fieldNames = << >>) =>
        LET i == last.stmt
        IN  /\ last.out.err = "nil" =>
                 /\ schemaful /\ Len(i.values) = Len(Schema)
                 /\ Len(last.out.t) = Len(last.pre) + 1
                 /\ SubSeq(last.out.t, 1, Len(last.pre)) = last.pre
                 /\ Len(InsertedRecord) = Len(Schema)
                 /\ \A k \in 1..Len(Schema) :
                      InsertedRecord[k] = Field(Schema[k].Name, Eval(i.values[k], << >>).v)
            /\ (~schemaful \/ Len(i.values) # Len(Schema)) =>
                 /\ last.out.err \notin {"nil", "panic"}
                 /\ last.out.t = last.pre
            /\ (schemaful /\ ValuesFitSchema(i)) => last.out.err = "nil"

\* Values(1, true) without a field list stored a = 1, b = true in a
\* schemaful table
C18_Witness ==
    /\ last.op = "insert" /\ last.stmt.fieldNames = << >> /\ schemaful
    /\ last.out.err = "nil"
    /\ InsertedRecord = << Field("a", Int1), Field("b", Bool1) >>

\* position of the first occurrence of the name n in the field list, 0 if
\* the list does not name it
RECURSIVE NamedAt(_, _, _)
NamedAt(names, n, j) ==
    IF j > Len(names) THEN 0
    ELSE IF names[j] = n THEN j
    ELSE NamedAt(names, n, j + 1)

\* C19: an INSERT with a field list into a schemaful table stores every
\* schema field the list does not name with the zero value of its type,
\* and every schema field it names with the value supplied for it
C19_MissingFieldsZero ==
    (/\ last.op = "insert" /\ last.stmt.table /\ schemaful
     /\ last.stmt.fieldNames # << >> /\ last.out.err = "nil") =>
        LET i == last.stmt
        IN  /\ Len(last.out.t) = Len(last.pre) + 1
            /\ \A k \in 1..Len(Schema) :
                 LET n == Schema[k].Name
                     j == NamedAt(i.fieldNames, n, 1)
                 IN  /\ HasField(InsertedRecord, n)
                     /\ GetField(InsertedRecord, n) =
                          IF j = 0
                          THEN [Name |-> n, Type |-> Schema[k].Type, Data |-> 0]
                          ELSE Field(n, Eval(i.values[j], << >>).v)

\* Fields("a").Values(1) stored a = 1 and the zero value false for b
C19_Witness ==
    /\ last.op = "insert" /\ schemaful /\ last.out.err = "nil"
    /\ last.stmt.fieldNames = << "a" >> /\ Len(last.stmt.values) = 1
    /\ InsertedRecord = << Field("a", Int1), Field("b", BoolValue(0)) >>

----------------------------------------------------------------------------
(* Properties of the parser *)

\* the i-th token of the input, EOF after its end
At(i) == IF i >= 1 /\ i <= Len(input) THEN input[i] ELSE EOFTok

\* number of tokens of the [UNIQUE] INDEX [IF NOT EXISTS] name ON table the
\* input starts with, 0 when it does not start with one
IndexHeadLen ==
    LET u == IF At(1).tok = "UNIQUE" THEN 1 ELSE 0
        e == IF At(u + 2).tok = "IF" /\ At(u + 3).tok = "NOT" /\ At(u + 4).tok = "EXISTS"
             THEN 3 ELSE 0
    IN  IF /\ At(u + 1).tok = "INDEX"
           /\ At(u + e + 2).tok = "IDENT"
           /\ At(u + e + 3).tok = "ON"
           /\ At(u + e + 4).tok = "IDENT"
        THEN u + e + 4 ELSE 0

\* whether the tokens after the first h are a parenthesised list of n
\* field names
IsFieldList(h, n) ==
    /\ At(h + 1).tok = "LPAREN"
    /\ \A j \in 1..n : At(h + 2 * j).tok = "IDENT"
    /\ \A j \in 1..(n - 1) : At(h + 2 * j + 1).tok = "COMMA"
    /\ At(h + 2 * n + 1).tok = "RPAREN"

\* C20: CREATE [UNIQUE] INDEX is rejected by the parser when its field
\* list names more than one field or is absent; with exactly one field it
\* is accepted and fieldName is that field
C20_SingleFieldIndex ==
    (parsed.called /\ IndexHeadLen > 0) =>
        LET h == IndexHeadLen
        IN  /\ At(h + 1).tok # "LPAREN" => parsed.err.set
            /\ \A n \in 2..(MaxFields + 1) : IsFieldList(h, n) => parsed.err.set
            /\ IsFieldList(h, 1) =>
                 /\ ~parsed.err.set
                 /\ parsed.v.kind = "createIndex"
                 /\ parsed.v.fieldName = At(h + 2).lit
                 /\ parsed.v.unique = (At(1).tok = "UNIQUE")

\* CREATE UNIQUE INDEX IF NOT EXISTS idx ON t (f1) was accepted
C20_Witness ==
    /\ parsed.called /\ ~parsed.err.set
    /\ input = << Kw("UNIQUE"), Kw("INDEX"), Kw("IF"), Kw("NOT"), Kw("EXISTS"),
                  Ident("idx"), Kw("ON"), Ident("t"),
                  Kw("LPAREN"), Ident("f1"), Kw("RPAREN") >>
    /\ parsed.v.fieldName = "f1" /\ parsed.v.unique /\ parsed.v.ifNotExists

\* parseInsertStatement was called
IsInsert == parsed.called /\ parsed.v.kind = "insert"

\* the longest field list the parser is given
MaxList == MaxFields + 1

\* the input starts with INTO table and k is the position of the token after
\* the field list, or after the table name when no ( follows it
ClauseAt(k) ==
    /\ At(1).tok = "INTO" /\ At(2).tok = "IDENT"
    /\ \/ k = 3 /\ At(3).tok # "LPAREN"
       \/ \E n \in 1..MaxList : IsFieldList(2, n) /\ k = 2 * n + 4

\* the positions ClauseAt is asked about
ClausePositions == 3..(2 * MaxList + 4)

\* C21: every parse error of the INSERT and CREATE parsing functions
\* carries the text of the unexpected token, a list of expected token
\* strings that is not empty, and the position of that token; an INSERT
\* whose table name and optional field list are followed by neither VALUES
\* nor RECORDS reports the token found there, the expected list VALUES,
\* RECORDS and the position of that token
C21_ErrorContents ==
    (parsed.called /\ parsed.err.set) =>
        /\ parsed.err.pos >= 1
        /\ parsed.err.found = Tokstr(At(parsed.err.pos))
        /\ parsed.err.expected # << >>
        /\ \A k \in ClausePositions :
             (IsInsert /\ ClauseAt(k) /\ At(k).tok \notin { "VALUES", RecordsToken }) =>
                 parsed.err = newParseError(Tokstr(At(k)), << "VALUES", "RECORDS" >>, k)

\* number of tokens of the TABLE [IF NOT EXISTS] name the input starts
\* with, 0 when it does not start with one
TableHeadLen ==
    LET e == IF At(2).tok = "IF" /\ At(3).tok = "NOT" /\ At(4).tok = "EXISTS"
             THEN 3 ELSE 0
    IN  IF At(1).tok = "TABLE" /\ At(e + 2).tok = "IDENT" THEN e + 2 ELSE 0

\* the position of the first token after RECORDS, 0 when the input has no
\* RECORDS clause where parseInsertStatement looks for it
RecordAt ==
    IF \E k \in ClausePositions : ClauseAt(k) /\ At(k).tok = RecordsToken
    THEN 1 + CHOOSE k \in ClausePositions : ClauseAt(k) /\ At(k).tok = RecordsToken
    ELSE 0

\* C22: one token of push-back is enough: Unscan is never called twice
\* without a scan in between, and an optional clause that is absent (field
\* list, VALUES, RECORDS, IF NOT EXISTS, table options, key-value list)
\* gives no error and leaves its first token to the next parsing step,
\* which reads that same token
C22_OneTokenPushBack ==
    parsed.called =>
        /\ parsed.ps.most <= 1
        \* field list, VALUES and RECORDS absent: the token is read by each
        \* step in turn, and last by the scan that reports it
        /\ \A k \in ClausePositions : (IsInsert /\ ClauseAt(k)) =>
              /\ At(k).tok \notin { "VALUES", RecordsToken } =>
                    /\ parsed.err.set /\ parsed.err.pos = k
                    /\ parsed.err.found = Tokstr(At(k))
                    /\ parsed.ps.pos = k - 1
              /\ At(k).tok \in { "VALUES", RecordsToken } =>
                    (parsed.err.set => parsed.err.pos > k)
              /\ k = 3 => parsed.v.fieldNames = << >>
        \* key-value list absent: the token after RECORDS that is neither a
        \* parameter nor ( is the one reported
        /\ (/\ IsInsert /\ RecordAt # 0
            /\ At(RecordAt).tok \notin { "NAMEDPARAM", "POSITIONALPARAM", "LPAREN" }) =>
              parsed.err = newParseError(Tokstr(At(RecordAt)), << "record" >>, RecordAt)
        \* IF NOT EXISTS absent: the token is read as the name
        /\ (~IsInsert /\ At(1).tok = "TABLE" /\ At(2).tok = "IDENT") =>
              parsed.v.tableName = At(2).lit /\ ~parsed.v.ifNotExists
        /\ (~IsInsert /\ IndexHeadLen > 0 /\ At(IndexHeadLen - 3).tok = "INDEX") =>
              parsed.v.indexName = At(IndexHeadLen - 2).lit /\ ~parsed.v.ifNotExists
        \* table options absent: no error, and the token is the next to be
        \* read
        /\ (~IsInsert /\ TableHeadLen > 0 /\ At(TableHeadLen + 1).tok # "LPAREN") =>
              /\ ~parsed.err.set
              /\ parsed.v.primaryKeyName = ""
              /\ parsed.ps.pos = TableHeadLen
        \* a statement that was parsed leaves the token after it
        /\ (IsInsert /\ ~parsed.err.set) =>
              /\ parsed.ps.unscans = 1
              /\ parsed.ps.pos + 1 >= Len(input)

\* INSERT INTO t RECORDS (a : 1); was parsed: the field list and VALUES were
\* looked for at RECORDS, the parameter at (, key-value pairs were found and
\* ; is left
C22_Witness ==
    /\ IsInsert /\ ~parsed.err.set
    /\ input = << Kw("INTO"), Ident("t"), Kw(RecordsToken),
                  Kw("LPAREN"), Ident("a"), Kw("COLON"), IntLit("1"), Kw("RPAREN"),
                  Kw("SEMICOLON") >>
    /\ parsed.v.records = << [pairs |-> << [K |-> "a", V |-> << IntLit("1") >>] >>] >>
    /\ parsed.ps.most = 1 /\ parsed.ps.pos = 8

----------------------------------------------------------------------------
(* Properties of scanner.Token *)

\* the precedence of the binary operator written s, 0 when s is none
PrecedenceOf(s) ==
    CASE s = "OR" -> 1
      [] s = "AND" -> 2
      [] s \in { "=", "!=", "IS", "IN", "LIKE", "=~", "!~", "BETWEEN" } -> 3
      [] s \in { "<", "<=", ">", ">=" } -> 4
      [] s \in { "|", "^", "&" } -> 5
      [] s \in { "+", "-" } -> 6
      [] s \in { "*", "/", "%" } -> 7
      [] OTHER -> 0

\* C23: Token.Precedence returns 1 for OR, 2 for AND, 3 for =, !=, IS, IN,
\* LIKE, =~, !~ and BETWEEN, 4 for <, <=, > and >=, 5 for |, ^ and &, 6 for
\* + and -, 7 for *, / and %, 8 for the concatenation operator, and 0 for
\* every other token
C23_Precedence ==
    "Precedence" \in lex.called =>
        lex.prec = IF lex.tok = "CONCAT" THEN 8 ELSE PrecedenceOf(TokenString(lex.tok))

\* Precedence was called for the concatenation operator and returned 8
C23_Witness ==
    /\ lex.called = { "Precedence", "String", "IsOperator" }
    /\ lex.tok = "CONCAT" /\ lex.prec = 8 /\ lex.isOp

----------------------------------------------------------------------------
(* Properties of TempTreeSort *)

\* the number of times d occurs in the sequence q
Occurrences(q, d) == Cardinality({ j \in 1..Len(q) : q[j] = d })

\* the value order: Null < Bool < Number, false < true, numbers by value
ValueLess(v, w) ==
    \/ TypeRank(v.Type) < TypeRank(w.Type)
    \/ v.Type = w.Type /\ v.Data < w.Data

\* the value of a in the document, Null when the document has no a
SortValue(doc) ==
    IF \E j \in 1..Len(doc) : doc[j].Name = "a"
    THEN LET j == CHOOSE j \in 1..Len(doc) : doc[j].Name = "a"
         IN  [Type |-> doc[j].Type, Data |-> doc[j].Data]
    ELSE [Type |-> "Null", Data |-> 0]

----------------------------------------------------------------------------
(* Properties of the ended stream *)

\* the stream has ended for the consumer: a Next returned io.EOF or an
\* error, or Close was called
StreamEnded ==
    \/ cons.nClose > 0
    \/ cons.out # << >> /\ Last(cons.out).k \in {"EOF", "err"}

\* C25: a Next on a stream that has ended (a previous Next returned io.EOF
\* or an error, or Close was called) does not send on the closed channel,
\* which would panic
C25_NextOnEndedStream == StreamEnded => cons.pc # "panic"

----------------------------------------------------------------------------
(* Properties of the assignments of an UPDATE *)

\* C26: an UPDATE is atomic per record: when an assignment to a matching
\* record fails, the stored record is as it was before the statement
\* visited it
C26_UpdateAtomicPerRecord ==
    (last.op = "update" /\ last.out.err # "nil" /\ last.out.applied # << >>) =>
        LET row == last.out.src[Len(last.out.applied)]
        IN  RowOf(last.out.t, row.id).r = row.r

----------------------------------------------------------------------------
(* Properties of the handshake of Next and iterate *)

\* a Next call is under way
InNext == cons.pc \in {"send", "recv"}

\* C27: with one consumer that calls Next again and again and never calls
\* Close, every Next call returns
C27_EveryNextReturns ==
    [](cons.nClose = 0) => [](InNext => <>(cons.pc = "idle"))

----------------------------------------------------------------------------
(* Properties of the arguments of Limit and Offset *)

\* the expression is set and evaluates to a value that is not an integer
NotAnInteger(e) ==
    e # NoExpr /\ Eval(e, << >>).err = "nil" /\ Eval(e, << >>).v.Type # "Int"

\* C28: a SELECT whose limit or offset expression evaluates to a value that
\* is not an integer returns an error and has not selected nor scanned a
\* table
C28_LimitOffsetInteger ==
    (/\ last.op = "select" /\ last.stmt.table
     /\ NotAnInteger(last.stmt.offset) \/ NotAnInteger(last.stmt.limit)) =>
        /\ last.out.err # "nil"
        /\ last.out.source = "none" /\ last.out.evals = 0

----------------------------------------------------------------------------
(* Properties of the expressions of an UPDATE *)

\* the record r with every assigned field given the value of its expression
\* on r itself
AssignedAtOnce(sets, r) ==
    [j \in 1..Len(r) |->
        IF r[j].Name \in PairKeys(sets)
        THEN Field(r[j].Name, Eval(PairExpr(sets, r[j].Name), r).v)
        ELSE r[j]]

\* C29: every SET expression of an UPDATE is evaluated against the record
\* as it was read: when all assignments succeed, the stored record is the
\* record read with each assigned field given the value of its expression
\* on the record read, whatever the order of the assignments
C29_EvalAgainstRecordRead ==
    (last.op = "update" /\ last.out.err = "nil") =>
        \A k \in 1..Len(last.out.src) :
            RowOf(last.out.t, last.out.src[k].id).r
                = AssignedAtOnce(last.stmt.sets, last.out.src[k].r)

\* SET a = b, b = a has swapped two different values, a assigned first
C29_Witness ==
    /\ last.op = "update" /\ last.out.err = "nil"
    /\ PairKeys(last.stmt.sets) = {"a", "b"}
    /\ PairExpr(last.stmt.sets, "a") = Ref("b")
    /\ PairExpr(last.stmt.sets, "b") = Ref("a")
    /\ \E k \in 1..Len(last.out.src) :
          LET r == last.out.src[k].r
              w == RowOf(last.out.t, last.out.src[k].id).r
          IN  /\ last.out.applied[k] = << "a", "b" >>
              /\ HasField(r, "a") /\ HasField(r, "b")
              /\ GetField(r, "a").Type # GetField(r, "b").Type
              /\ GetField(w, "a").Type = GetField(r, "b").Type
              /\ GetField(w, "b").Type = GetField(r, "a").Type

----------------------------------------------------------------------------
(* Properties of the record of a schemaful INSERT *)

----------------------------------------------------------------------------
(* Properties of Close and the goroutine *)

\* C31: when Close has returned, the iterate goroutine has terminated and
\* closed its channel: none of its steps is still to come
C31_CloseWaitsForIterate ==
    cons.nClose > 0 => (iter.pc = "done" /\ rs.closed)

----------------------------------------------------------------------------
(* Properties of stmt.ExecContext *)

\* C32: ExecContext looks at the context at its entry only: called with a
\* context that is done it returns the error of the context and leaves the
\* table as it was; called with a context that is not done it returns the
\* result and the error of the statement's Run, whatever happened to the
\* context since
C32_CancellationAtEntryOnly ==
    exec.pc = "returned" =>
        IF exec.entry # "nil"
        THEN /\ exec.res = "nil" /\ exec.err = exec.entry
             /\ tbl = exec.pre /\ last = NoLast
        ELSE Let(StatementRun(exec.p, exec.pre, schemaful, exec.orders), LAMBDA out :
                /\ exec.res = "Result" /\ exec.err = out.err
                /\ tbl = out.t)

\* a DELETE started before its context was cancelled has removed the
\* records and returned without error
C32_Witness ==
    /\ exec.pc = "returned" /\ exec.entry = "nil" /\ exec.ctx = "context canceled"
    /\ exec.p.op = "delete" /\ exec.err = "nil"
    /\ exec.pre # << >> /\ tbl = << >>

====
